---- MODULE Spec2Model ----
(***************************************************************************)
(* BlueTalk: the reliable fragmentation transport (Transport), the Peer    *)
(* facade (writeLoop, writeRaw, handleDisconnect, session install) and the *)
(* discovery loop, as state machines.                                      *)
(*                                                                         *)
(* Two peers, "A" and "B", each own a Transport.  link[p] holds the frames *)
(* in flight towards p (a BLE write-without-response or notification: in   *)
(* order, possibly lost).  Bytes are numbers 0..255, a text or a packet is *)
(* a sequence of bytes.  Time is counted in periods of ackTimeout.         *)
(***************************************************************************)
EXTENDS Integers, Sequences, FiniteSets, TLC

VARIABLES
    connected,      \* Peer.connected (atomic.Bool)
    isCentral,      \* Peer.isCentral
    centralClient,  \* Peer.centralClient: 0 is nil, else the client's id
    nextSeq,        \* Transport.nextSeq (atomic.Uint32)
    pendingAcks,    \* Transport.pendingAcks: the keys <<seq, idx>> of the map
    ackCh,          \* the channel made by the last registerAck: [buf, closed]
    reassembly,     \* Transport.reassembly: seq -> rxMessage
    recvCh,         \* Peer.recvCh / Transport.recvCh
    statusCh,       \* Peer.statusCh
    link,           \* link[p]: frames written by the other peer, not yet delivered to p
    now,            \* time.Now(), in periods of ackTimeout
    snd,            \* writeLoop / SendMessage of each peer: position and locals
    returned,       \* history: what each SendMessage call returned
    taken,          \* history: number of messages writeLoop took from sendCh
    pool,           \* harness: the packets still to be handed to acceptData
    subject,        \* harness: the text whose fragments are in pool, and its seq
    fedCount,       \* harness: number of packets the harness has handed over
    discarded,      \* history: number of ACK packets that signalAck discarded
    storedAt,       \* history: for each seq, when acceptData last stored a fragment
    acking,         \* the call of signalAck of each peer between its unlock and its send
    locks,          \* the mutexes of a Peer and its Transport, and the tasks that take them
    disc,           \* discoveryLoop of each peer: position
    pIncoming,      \* pIncoming: number of devices queued by the connect handler
    hd,             \* the running calls of handleDisconnect: position and locals
    watching,       \* the clients whose Disconnected() a goroutine waits for
    disconnected,   \* the clients whose Disconnected() channel is closed
    alive,          \* the clients whose device is connected
    inbound,        \* a remote central is connected to the local GATT server
    session,        \* history: number of sessions installed
    cycles,         \* history: number of discovery cycles that ended without a session
    tornDown,       \* history: the sessions whose teardown has completed
    wall,           \* time.Now() of the discovery timers, in milliseconds
    deadline,       \* the time.After / scan timer of each discoveryLoop
    clockSkew,      \* the difference of each peer's clock reading from wall
    once,           \* CentralClient.once: the clients whose Once has run
    closes,         \* history: number of close(c.disconnected) executed per client
    closing,        \* the calls of CentralClient.Close between its two statements
    dconn,          \* dbus.Conn: pending, closed, readErr, sigCh, the socket
    caller,         \* the callers of Object.Call: position and locals
    boot,           \* the call of ConnectSystemBus: position, locals, its socket
    dial,           \* the call of bluez.Connect: position, locals, the calls it made
    dec             \* a call of decodeVariantValue: its input and what it returned

vars == <<connected, isCentral, centralClient, nextSeq, pendingAcks, ackCh,
          reassembly, recvCh, statusCh, link, now, snd, returned,
          taken, pool, subject, fedCount, discarded, storedAt, acking, locks, disc, pIncoming, hd, watching,
          disconnected, alive, inbound, session, cycles, tornDown, wall,
          deadline, clockSkew, once, closes, closing, dconn, caller, boot, dial, dec>>

\* The session of a Peer, its discovery loop, and the state of its Links.
sessionVars == <<connected, isCentral, centralClient>>

discoveryVars == <<disc, pIncoming, watching, session, cycles>>

linkVars == <<disconnected, alive, inbound>>

\* What the Transport never writes.
peerVars == <<sessionVars, discoveryVars, linkVars, hd, tornDown>>

\* The timers of the timed discovery loops, the Once of each CentralClient,
\* and the D-Bus connection with its callers.
timerVars == <<wall, deadline, clockSkew>>

onceVars == <<once, closes, closing>>

dbusVars == <<dconn, caller, boot, dial, dec>>

componentVars == <<timerVars, onceVars, dbusVars>>

\* The test harness of the Transport.
harnessVars == <<pool, subject, fedCount, discarded, storedAt, acking, locks>>

(***************************************************************************)
(* Program constants                                                       *)
(***************************************************************************)
bleMTU == 20
headerSize == 4
payloadSize == bleMTU - headerSize
maxRetries == 5
packetData == 1
packetAck == 2
maxFragments == 255
ackTimeoutMs == 900
reapAfterMs == 120000
chanCap == 32
incomingCap == 4
advMinMs == 500
advSpanMs == 1400
scanMinMs == 700
scanSpanMs == 1600
nsPerMs == 1000000
sigCap == 16

(***************************************************************************)
(* Bounds of the model                                                     *)
(***************************************************************************)
MaxMsgs == 2
MaxNow == 135
IdleTicks == 67
MaxRx == 3
MaxHD == 2
MaxSessions == 2
MaxCycles == 1
MaxCallers == 2
DuoCycles == 20
MaxRemote == 1
MaxCloses == 2
MaxSignals == 17
MaxLines == 2
MaxPolls == 3

\* The seq values of the packets handed to a receiver.
FuzzSeqs == {1, 2}

\* The instants at which both discovery loops start, and the nanoseconds by
\* which a peer's clock is ahead of wall.
StartWalls == {0, 7, 1234}

Skews == {0, 1, 250}

Peers == {"A", "B"}

Other(p) == IF p = "A" THEN "B" ELSE "A"

Min(a, b) == IF a < b THEN a ELSE b

\* An unfilled slot of rxMessage.fragments (a nil []byte).  It differs from
\* the empty payload <<>>, which make([]byte, 0) stores as a non-nil slice.
Nil == <<-1>>

\* A text of n bytes; byte i is (tag + i) mod 251, so that any two chunks of
\* one text, and texts with different tags, differ.
MkText(n, tag) == [i \in 1..n |-> (tag + i) % 251]

Tags == {0, 100}

\* The texts of the lossy specifications: empty, one fragment, two fragments.
Texts == {MkText(n, 0) : n \in {0, 1}} \cup {MkText(17, t) : t \in Tags}

maxBytes == maxFragments * payloadSize

\* The texts of the loopback specification: up to the largest text that
\* SendMessage accepts, and the smallest it rejects.
LoopTexts == {MkText(n, 0) : n \in {0, 1, payloadSize, payloadSize + 1, maxBytes, maxBytes + 1}}

\* The texts of the permutation harness: one to four fragments.
PermTexts == {MkText(n, t) : n \in {1, 16, 17, 32, 33, 50}, t \in Tags}

PermSeqs == {0, 1, 255}

\* The texts of the lossy Link: one fragment, two fragments, and enough
\* fragments for their retransmissions to take more than two minutes.
LossyTexts == {MkText(n, 0) : n \in {1, 17, 35 * payloadSize}}

NoError == <<"nil">>

(***************************************************************************)
(* Channels with a capacity: a send in a select with a default case.       *)
(***************************************************************************)
TrySend(ch, v) == IF Len(ch) < chanCap THEN Append(ch, v) ELSE ch

\* A publishStatus that loses every line.
publishNothing(st, p, msg) == st

publishStatus(st, p, msg) == [st EXCEPT ![p] = TrySend(st[p], msg)]

(***************************************************************************)
(* Transport: fragmentation                                                *)
(***************************************************************************)
TotalOf(data) == (Len(data) + payloadSize - 1) \div payloadSize

\* A size check that is off by one fragment.
TooLargeOffByOne(data) == TotalOf(data) > maxFragments + 1

TooLarge(data) == TotalOf(data) > maxFragments

\* atomic.Uint32 as two 16-bit halves (2^32 is beyond the checker's integers).
Counter(n) == [hi |-> n \div 65536, lo |-> n % 65536]

Add1(c) ==
    IF c.lo = 65535
    THEN [hi |-> (c.hi + 1) % 65536, lo |-> 0]
    ELSE [c EXCEPT !.lo = @ + 1]

\* uint8(counter % 256) as it is.
SeqOfRaw(c) == c.lo % 256

\* uint8(counter % 256), 0 replaced by 1.
SeqOf(c) == IF c.lo % 256 = 0 THEN 1 ELSE c.lo % 256

\* A fragment whose header says idx 0 whatever its place.
PacketIdxZero(data, seq, total, i) ==
    LET start == i * payloadSize
        end   == Min(start + payloadSize, Len(data))
    IN  <<packetData, seq, total % 256, 0>> \o SubSeq(data, start + 1, end)

Packet(data, seq, total, i) ==
    LET start == i * payloadSize
        end   == Min(start + payloadSize, Len(data))
    IN  <<packetData, seq, total % 256, i % 256>> \o SubSeq(data, start + 1, end)

\* An ACK that names fragment 0 whatever the idx of the packet.
AckForFirst(seq, total, idx) == <<packetAck, seq, total, 0>>

AckFor(seq, total, idx) == <<packetAck, seq, total, idx>>

(***************************************************************************)
(* Transport: reassembly                                                   *)
(***************************************************************************)
\* A buffer of three slots whatever the total.
FreshOfThree(total, t) ==
    [total |-> total, fragments |-> [i \in 0..2 |-> Nil], createdAt |-> t]

Fresh(total, t) ==
    [total |-> total, fragments |-> [i \in 0..(total - 1) |-> Nil], createdAt |-> t]

Reap(rx, t) ==
    LET keep == {s \in DOMAIN rx : ~((t - rx[s].createdAt) * ackTimeoutMs > reapAfterMs)}
    IN  [s \in keep |-> rx[s]]

Store(msg, idx, payload) ==
    IF msg.fragments[idx] = Nil
    THEN [msg EXCEPT !.fragments[idx] = payload]
    ELSE msg

\* A completeness check that looks at the last slot only.
CompleteWhenLastArrives(msg) == msg.fragments[msg.total - 1] # Nil

\* A completeness check that skips slot 0.
CompleteIgnoringFirst(msg) == \A i \in 1..(msg.total - 1) : msg.fragments[i] # Nil

Complete(msg) == \A i \in 0..(msg.total - 1) : msg.fragments[i] # Nil

\* The slots lo..hi-1 appended in index order (the range is halved, which
\* gives the same sequence as appending slot by slot).
RECURSIVE JoinRange(_, _, _)
JoinRange(frags, lo, hi) ==
    IF hi <= lo THEN <<>>
    ELSE IF hi = lo + 1 THEN (IF frags[lo] = Nil THEN <<>> ELSE frags[lo])
    ELSE LET mid == (lo + hi) \div 2
         IN  JoinRange(frags, lo, mid) \o JoinRange(frags, mid, hi)

Join(frags, n) == JoinRange(frags, 0, n)

Full(msg) == Join(msg.fragments, msg.total)

\* An acceptData that reaps the old buffers before it looks at total and idx.
acceptDataReapsFirst(rx, t, seq, total, idx, payload) ==
    IF total = 0 \/ idx >= total
    THEN [reassembly |-> Reap(rx, t), out |-> <<>>]
    ELSE LET reaped == Reap(rx, t)
             msg    == IF seq \in DOMAIN reaped /\ reaped[seq].total = total
                       THEN reaped[seq]
                       ELSE Fresh(total, t)
             stored == Store(msg, idx, payload)
         IN  IF Complete(stored)
             THEN [reassembly |-> [s \in (DOMAIN reaped) \ {seq} |-> reaped[s]],
                   out |-> <<Full(stored)>>]
             ELSE [reassembly |-> [s \in (DOMAIN reaped) \cup {seq} |->
                                      IF s = seq THEN stored ELSE reaped[s]],
                   out |-> <<>>]

\* acceptData on the reassembly map rx at time t: the map it leaves and the
\* strings it offers to recvCh (none or one).
acceptData(rx, t, seq, total, idx, payload) ==
    IF total = 0 \/ idx >= total
    THEN [reassembly |-> rx, out |-> <<>>]
    ELSE LET reaped == Reap(rx, t)
             msg    == IF seq \in DOMAIN reaped /\ reaped[seq].total = total
                       THEN reaped[seq]
                       ELSE Fresh(total, t)
             stored == Store(msg, idx, payload)
         IN  IF Complete(stored)
             THEN [reassembly |-> [s \in (DOMAIN reaped) \ {seq} |-> reaped[s]],
                   out |-> <<Full(stored)>>]
             ELSE [reassembly |-> [s \in (DOMAIN reaped) \cup {seq} |->
                                      IF s = seq THEN stored ELSE reaped[s]],
                   out |-> <<>>]

(***************************************************************************)
(* Transport: PendingAck                                                   *)
(***************************************************************************)
OpenChan == [buf |-> 0, closed |-> FALSE, closes |-> 0]

\* signalAck: a non-blocking send on the channel registered for <<seq, idx>>.
signalAck(keys, ch, seq, idx) ==
    IF <<seq, idx>> \in keys /\ ch.buf = 0
    THEN [ch EXCEPT !.buf = 1]
    ELSE ch

\* OnConnected and OnDisconnected: every entry deleted and its channel closed,
\* the reassembly map cleared.
ClosedBy(keys, ch) ==
    IF keys = {} THEN ch ELSE [ch EXCEPT !.closed = TRUE, !.closes = @ + 1]

EmptyMap == [s \in {} |-> Nil]

\* A loop over pendingAcks that closes the channels and deletes nothing.
NoneDeleted(keys) == keys

\* The keys left by the loop over pendingAcks: each one is deleted.
AllDeleted(keys) == {}

\* The Transport after OnConnected: its map of keys, the channel, the
\* reassembly map.
Drained(keys, ch, rx) ==
    [pendingAcks |-> AllDeleted(keys), ackCh |-> ClosedBy(keys, ch), reassembly |-> EmptyMap]

OnConnected(p) ==
    LET after == Drained(pendingAcks[p], ackCh[p], reassembly[p])
    IN  /\ pendingAcks' = [pendingAcks EXCEPT ![p] = after.pendingAcks]
        /\ ackCh' = [ackCh EXCEPT ![p] = after.ackCh]
        /\ reassembly' = [reassembly EXCEPT ![p] = after.reassembly]

(***************************************************************************)
(* Peer.writeRaw on a live Link: the frame is queued towards the other     *)
(* peer.  Without a session writeRaw returns "not connected".              *)
(***************************************************************************)
Written(lk, p, data) == [lk EXCEPT ![Other(p)] = Append(@, data)]

\* The write on the Link succeeds: as central, WriteNoResponse on a client
\* whose device is connected; as peripheral, a notification to the remote
\* central.
WriteOK(p) ==
    IF isCentral[p] THEN centralClient[p] \in alive[p] ELSE inbound[p]

(***************************************************************************)
(* The running calls of handleDisconnect: MaxHD slots, a free slot has pc  *)
(* "free".  sess records the session that the call ended, from the session *)
(* whose client or whose write produced the event, 0 for an event of the   *)
(* connect handler (history).                                              *)
(***************************************************************************)
Slots == 1..MaxHD

FreeHD == [pc |-> "free", reason |-> <<>>, client |-> 0, sess |-> 0, from |-> 0]

HasFree(p) == \E h \in Slots : hd[p][h].pc = "free"

FirstFree(p) == CHOOSE h \in Slots : hd[p][h].pc = "free" /\ \A g \in Slots : hd[p][g].pc = "free" => h <= g

\* go p.handleDisconnect(reason), or a call of it from a callback.
Spawned(p, reason, from) ==
    [hd EXCEPT ![p][FirstFree(p)] =
        [pc |-> "swap", reason |-> reason, client |-> 0, sess |-> 0, from |-> from]]

(***************************************************************************)
(* Peer.writeLoop and Transport.SendMessage                                *)
(***************************************************************************)
IdleSnd ==
    [pc |-> "idle", data |-> <<>>, seq |-> 0, total |-> 0, i |-> 0,
     tries |-> 0, sent |-> FALSE]

Key(s) == <<s.seq, s.i % 256>>

Return(p, text, err) ==
    returned' = [returned EXCEPT ![p] = Append(@, [text |-> text, err |-> err])]

\* A retry loop that makes one attempt more.
NextTrySix(s) ==
    [s EXCEPT !.tries = @ + 1,
              !.pc = IF s.tries + 1 < maxRetries + 1 THEN "write" ELSE "unregister"]

\* After a failed attempt: the next attempt, or the end of the retry loop.
NextTry(s) ==
    [s EXCEPT !.tries = @ + 1,
              !.pc = IF s.tries + 1 < maxRetries THEN "write" ELSE "unregister"]

\* A writeLoop that does not look at connected.
NeverIgnored(p) == FALSE

\* writeLoop drops the message it took.
Ignored(p) == ~connected[p]

\* writeLoop takes msg from sendCh; SendMessage up to the assignment of seq.
writeLoop(p, msg) ==
    /\ snd[p].pc = "idle"
    /\ taken[p] < MaxMsgs
    /\ taken' = [taken EXCEPT ![p] = @ + 1]
    /\ IF Ignored(p)
       THEN /\ statusCh' = publishStatus(statusCh, p, <<"Message ignored: not connected">>)
            /\ UNCHANGED <<snd, nextSeq, returned>>
       ELSE IF Len(msg) = 0
       THEN /\ Return(p, msg, NoError)
            /\ UNCHANGED <<snd, nextSeq, statusCh>>
       ELSE IF TooLarge(msg)
       THEN /\ Return(p, msg, <<"message too large">>)
            /\ statusCh' = publishStatus(statusCh, p, <<"Send failed: message too large">>)
            /\ UNCHANGED <<snd, nextSeq>>
       ELSE /\ nextSeq' = [nextSeq EXCEPT ![p] = Add1(@)]
            /\ snd' = [snd EXCEPT ![p] =
                          [pc |-> "register", data |-> msg, seq |-> SeqOf(nextSeq'[p]),
                           total |-> TotalOf(msg), i |-> 0, tries |-> 0, sent |-> FALSE]]
            /\ UNCHANGED <<statusCh, returned>>
    /\ UNCHANGED <<peerVars, componentVars, harnessVars, pendingAcks, ackCh, reassembly, recvCh, link, now>>

registerAck(p) ==
    /\ snd[p].pc = "register"
    /\ pendingAcks' = [pendingAcks EXCEPT ![p] = @ \cup {Key(snd[p])}]
    /\ ackCh' = [ackCh EXCEPT ![p] = OpenChan]
    /\ snd' = [snd EXCEPT ![p].pc = "write", ![p].tries = 0, ![p].sent = FALSE]
    /\ UNCHANGED <<peerVars, componentVars, harnessVars, nextSeq, reassembly, recvCh, statusCh, link,
                   now, returned, taken>>

\* A writeRaw that returns the error and does nothing else.
OnWriteErrorIgnored(p) == hd

\* What writeRaw does with an error of the write on the Link: as central it
\* starts handleDisconnect, as peripheral writePeripheral does.
OnWriteError(p) ==
    Spawned(p, IF isCentral[p] THEN <<"Disconnected: write failed">>
                               ELSE <<"Disconnected: peripheral notify failed">>,
            session[p])

\* writeRaw returns nil.
Wrote(p) == connected[p] /\ WriteOK(p)

\* Peer.writeRaw(data) on the Link lk.
writeRaw(p, lk, data) ==
    IF ~connected[p]
    THEN /\ link' = lk
         /\ UNCHANGED hd
    ELSE IF WriteOK(p)
    THEN /\ link' = Written(lk, p, data)
         /\ UNCHANGED hd
    ELSE /\ HasFree(p)
         /\ hd' = OnWriteError(p)
         /\ link' = lk

\* One attempt: writeRaw(packet).  An error of writeRaw ends the attempt.
sendAttempt(p) ==
    /\ snd[p].pc = "write"
    /\ writeRaw(p, link, Packet(snd[p].data, snd[p].seq, snd[p].total, snd[p].i))
    /\ snd' = [snd EXCEPT ![p] = IF Wrote(p) THEN [@ EXCEPT !.pc = "wait"] ELSE NextTry(@)]
    /\ UNCHANGED <<sessionVars, discoveryVars, linkVars, componentVars, harnessVars, nextSeq, pendingAcks,
                   ackCh, reassembly, recvCh, statusCh, now, returned, taken, tornDown>>

\* select: a value on ackCh.
ackReceived(p) ==
    /\ snd[p].pc = "wait"
    /\ ackCh[p].buf = 1
    /\ ackCh' = [ackCh EXCEPT ![p].buf = 0]
    /\ snd' = [snd EXCEPT ![p].sent = TRUE, ![p].pc = "unregister"]
    /\ UNCHANGED <<peerVars, componentVars, harnessVars, nextSeq, pendingAcks, reassembly, recvCh,
                   statusCh, link, now, returned, taken>>

\* select: ackCh closed by a session event (ok is false).
ackClosed(p) ==
    /\ snd[p].pc = "wait"
    /\ ackCh[p].buf = 0
    /\ ackCh[p].closed
    /\ snd' = [snd EXCEPT ![p] = NextTry(@)]
    /\ UNCHANGED <<peerVars, componentVars, harnessVars, nextSeq, pendingAcks, ackCh, reassembly,
                   recvCh, statusCh, link, now, returned, taken>>

\* select: time.After(ackTimeout).  The timeout is long against the latency
\* of the Link: it expires when no frame is in flight and no ACK has come,
\* that is when the DATA packet or its ACK was lost.
ackTimeout(p) ==
    /\ snd[p].pc = "wait"
    /\ ackCh[p].buf = 0
    /\ ~ackCh[p].closed
    /\ \A q \in Peers : link[q] = <<>>
    /\ snd' = [snd EXCEPT ![p] = NextTry(@)]
    /\ now' = now + 1
    /\ UNCHANGED <<peerVars, componentVars, harnessVars, nextSeq, pendingAcks, ackCh, reassembly,
                   recvCh, statusCh, link, returned, taken>>

\* A sender that takes every fragment for acknowledged.
AckedAlways(s) == TRUE

\* The test of sent after the retry loop.
Acked(s) == s.sent

\* unregisterAck, then the error return, the next fragment or the nil return.
unregisterAck(p) ==
    /\ snd[p].pc = "unregister"
    /\ pendingAcks' = [pendingAcks EXCEPT ![p] = @ \ {Key(snd[p])}]
    /\ IF ~Acked(snd[p])
       THEN /\ Return(p, snd[p].data, <<"delivery timeout", snd[p].seq, snd[p].i>>)
            /\ statusCh' = publishStatus(statusCh, p,
                              <<"Send failed: delivery timeout", snd[p].seq, snd[p].i>>)
            /\ snd' = [snd EXCEPT ![p] = IdleSnd]
       ELSE IF snd[p].i + 1 < snd[p].total
       THEN /\ snd' = [snd EXCEPT ![p].pc = "register", ![p].i = @ + 1]
            /\ UNCHANGED <<returned, statusCh>>
       ELSE /\ Return(p, snd[p].data, NoError)
            /\ snd' = [snd EXCEPT ![p] = IdleSnd]
            /\ UNCHANGED statusCh
    /\ UNCHANGED <<peerVars, componentVars, harnessVars, nextSeq, ackCh, reassembly, recvCh, link,
                   now, taken>>

(***************************************************************************)
(* Transport.OnReceivePacket, called by the Link for the oldest frame in   *)
(* flight towards p; rest is the Link without that frame.                  *)
(***************************************************************************)
\* The call of acceptData: the reassembly map and recvCh after it.
AcceptData(p, seq, total, idx, payload) ==
    LET res == acceptData(reassembly[p], now, seq, total, idx, payload)
    IN  /\ reassembly' = [reassembly EXCEPT ![p] = res.reassembly]
        /\ recvCh' = [recvCh EXCEPT ![p] =
                         IF res.out = <<>> THEN @ ELSE TrySend(@, res.out[1])]

OnReceivePacket(p, data, rest) ==
    IF Len(data) < headerSize
    THEN /\ link' = rest
         /\ UNCHANGED <<ackCh, reassembly, recvCh, hd>>
    ELSE LET typeByte == data[1]
             seq      == data[2]
             total    == data[3]
             idx      == data[4]
         IN  IF typeByte = packetAck
             THEN /\ ackCh' = [ackCh EXCEPT ![p] = signalAck(pendingAcks[p], @, seq, idx)]
                  /\ link' = rest
                  /\ UNCHANGED <<reassembly, recvCh, hd>>
             ELSE IF typeByte = packetData
             THEN /\ writeRaw(p, rest, AckFor(seq, total, idx))
                  /\ AcceptData(p, seq, total, idx, SubSeq(data, headerSize + 1, Len(data)))
                  /\ UNCHANGED ackCh
             ELSE /\ link' = rest
                  /\ UNCHANGED <<ackCh, reassembly, recvCh, hd>>

Deliver(p) ==
    /\ link[p] # <<>>
    /\ OnReceivePacket(p, Head(link[p]), [link EXCEPT ![p] = Tail(@)])
    /\ UNCHANGED <<sessionVars, discoveryVars, linkVars, tornDown, componentVars, harnessVars, nextSeq, pendingAcks, statusCh, now, snd,
                   returned, taken>>

(***************************************************************************)
(* The Link loses a frame.  While nothing is being sent, time passes.      *)
(***************************************************************************)
DropData(p) ==
    /\ link[p] # <<>>
    /\ Head(link[p])[1] = packetData
    /\ link' = [link EXCEPT ![p] = Tail(@)]
    /\ UNCHANGED <<peerVars, componentVars, harnessVars, nextSeq, pendingAcks, ackCh, reassembly,
                   recvCh, statusCh, now, snd, returned, taken>>

DropAck(p) ==
    /\ link[p] # <<>>
    /\ Head(link[p])[1] = packetAck
    /\ link' = [link EXCEPT ![p] = Tail(@)]
    /\ UNCHANGED <<peerVars, componentVars, harnessVars, nextSeq, pendingAcks, ackCh, reassembly,
                   recvCh, statusCh, now, snd, returned, taken>>

Tick ==
    /\ now < MaxNow
    /\ \A p \in Peers : snd[p].pc = "idle"
    /\ now' = now + IdleTicks
    /\ UNCHANGED <<peerVars, componentVars, harnessVars, nextSeq, pendingAcks, ackCh, reassembly,
                   recvCh, statusCh, link, snd, returned, taken>>

(***************************************************************************)
(* A session between A (central, the sender) and B (peripheral).  A has    *)
(* sent StartCounters messages in earlier sessions.                        *)
(***************************************************************************)
StartCounters == {0, 255}

NoSubject == [text |-> <<>>, seq |-> 0, reordered |-> FALSE]

\* No discovery timer runs, no client has signalled, the D-Bus connection is
\* open with its reader running and no caller.
Clients == 1..MaxSessions

Callers == 1..MaxCallers

\* A caller of Object.Call: ch is the channel that waitReply makes, reply and
\* err are the fields of the Call it returns.
IdleCaller ==
    [pc |-> "idle", serial |-> 0, ch |-> <<"empty">>, reply |-> <<"nil">>,
     err |-> <<"nil">>]

\* The Conn that ConnectSystemBus returns.  wire holds the serials of the
\* calls that the bus has not answered; atEnd is history: the serials that
\* were registered when readLoop ended; dropped is history: the number of
\* messages that readLoop read and handed to nobody.
OpenConn ==
    [pending |-> {}, closed |-> FALSE, readErr |-> <<"nil">>, sigCh |-> 0,
     sigClosed |-> FALSE, serial |-> 0, reader |-> "running", socket |-> "open",
     wire |-> {}, signals |-> 0, atEnd |-> {}, dropped |-> 0]

\* ConnectSystemBus before its first statement.  sent is what it has written
\* to the socket, inbox the lines and wire the messages that the bus has
\* written and that have not been read; pending, serial, uniqueName and
\* reader are the Conn it builds.
IdleBoot ==
    [pc |-> "dial", uid |-> 0, socket |-> "none", sent |-> <<>>, inbox |-> <<>>,
     lines |-> 0, wire |-> <<>>, read |-> <<>>, pending |-> {}, serial |-> 0,
     ch |-> <<"empty">>, uniqueName |-> <<>>, reader |-> "not started",
     err |-> <<"nil">>]

\* A Go value: t is its kind, v what it holds.  A number is <<sign, hi, lo>>,
\* its magnitude in two 16-bit halves (2^32 is beyond the checker's
\* integers), sign 1 for a negative number.
Val(t, v) == [t |-> t, v |-> v]

NilValue == Val("nil", <<>>)

\* No call of decodeVariantValue yet.
IdleDec ==
    [pc |-> "idle", sig |-> <<>>, value |-> NilValue, at |-> 0, buf |-> <<>>,
     got |-> NilValue, pos |-> 0]

\* The nil *CentralClient.
NoClient == [writeCharPath |-> <<>>, notifyCharPath |-> <<>>]

\* bluez.Connect before its first statement.  calls is the list of the
\* D-Bus method calls it has made, out the reply of GetManagedObjects.
IdleDial ==
    [pc |-> "connect", calls |-> <<>>, polls |-> 0, cancelled |-> FALSE,
     resolved |-> FALSE, out |-> {}, client |-> NoClient, closed |-> FALSE,
     matches |-> 0, err |-> <<"nil">>]

\* No call of signalAck holds a channel.  closed tells that the channel it
\* holds has been closed, current that the channel is still ackCh.
IdleSig == [pc |-> "idle", closed |-> FALSE, current |-> FALSE]

\* Peer.mu, Peer.peripheralNotifierMu, Transport.ackMu and Transport.rxMu, and
\* the goroutines that take them: writeLoop (SendMessage), the notification
\* callback (OnReceivePacket), discoveryLoop (setConnectedAs*), and the two
\* callers of handleDisconnect (the watcher goroutine, the connect handler).
Mutexes == {"mu", "peripheralNotifierMu", "ackMu", "rxMu"}

Tasks == {"writeLoop", "notify", "discoveryLoop", "watcher", "connectHandler"}

NoneHeld == [held |-> [m \in Mutexes |-> "none"], prog |-> [t \in Tasks |-> <<>>]]

ComponentsIdle ==
    /\ wall = 0
    /\ deadline = [p \in Peers |-> 0]
    /\ clockSkew = [p \in Peers |-> 0]
    /\ once = [p \in Peers |-> {}]
    /\ closes = [p \in Peers |-> [c \in Clients |-> 0]]
    /\ closing = [p \in Peers |-> [c \in Clients |-> 0]]
    /\ discarded = [p \in Peers |-> 0]
    /\ storedAt = [s \in FuzzSeqs |-> 0]
    /\ acking = [p \in Peers |-> IdleSig]
    /\ locks = NoneHeld
    /\ dconn = OpenConn
    /\ caller = [k \in Callers |-> IdleCaller]
    /\ boot = IdleBoot
    /\ dial = IdleDial
    /\ dec = IdleDec

InSession ==
    /\ ComponentsIdle
    /\ connected = [p \in Peers |-> TRUE]
    /\ isCentral = [p \in Peers |-> p = "A"]
    /\ centralClient = [p \in Peers |-> IF p = "A" THEN 1 ELSE 0]
    /\ pendingAcks = [p \in Peers |-> {}]
    /\ ackCh = [p \in Peers |-> OpenChan]
    /\ reassembly = [p \in Peers |-> EmptyMap]
    /\ recvCh = [p \in Peers |-> <<>>]
    /\ statusCh = [p \in Peers |-> <<>>]
    /\ link = [p \in Peers |-> <<>>]
    /\ now = 0
    /\ snd = [p \in Peers |-> IdleSnd]
    /\ returned = [p \in Peers |-> <<>>]
    /\ fedCount = 0
    /\ disc = [p \in Peers |-> "waiting"]
    /\ pIncoming = [p \in Peers |-> 0]
    /\ hd = [p \in Peers |-> [h \in Slots |-> FreeHD]]
    /\ watching = [p \in Peers |-> IF p = "A" THEN {1} ELSE {}]
    /\ disconnected = [p \in Peers |-> {}]
    /\ alive = [p \in Peers |-> IF p = "A" THEN {1} ELSE {}]
    /\ inbound = [p \in Peers |-> p = "B"]
    /\ session = [p \in Peers |-> 1]
    /\ cycles = [p \in Peers |-> 0]
    /\ tornDown = [p \in Peers |-> {}]

Init ==
    /\ InSession
    /\ taken = [p \in Peers |-> 0]
    /\ \E c \in StartCounters :
          nextSeq = [p \in Peers |-> IF p = "A" THEN Counter(c) ELSE Counter(0)]
    /\ pool = {}
    /\ subject = NoSubject

Send == \E msg \in Texts : writeLoop("A", msg)

Sender ==
    \/ registerAck("A")
    \/ sendAttempt("A")
    \/ ackReceived("A")
    \/ unregisterAck("A")

Receive == \E p \in Peers : Deliver(p)

\* The transport pair on a Link that may lose frames.
Next ==
    \/ Send
    \/ Sender
    \/ ackTimeout("A")
    \/ Receive
    \/ DropData("B")
    \/ DropAck("A")
    \/ Tick

Spec == Init /\ [][Next]_vars

(***************************************************************************)
(* The loopback Link: every frame is delivered once, and promptly (no      *)
(* timeout expires, the clock does not advance while a message is sent).   *)
(***************************************************************************)
SendLoop == \E msg \in LoopTexts : writeLoop("A", msg)

NextLoopback ==
    \/ SendLoop
    \/ Sender
    \/ Receive

SpecLoopback ==
    /\ Init
    /\ [][NextLoopback]_vars
    /\ WF_vars(Sender)
    /\ \A p \in Peers : WF_vars(Deliver(p))

(***************************************************************************)
(* The Link that may lose DATA frames and never loses an ACK.              *)
(***************************************************************************)
SendLossy == \E msg \in LossyTexts : writeLoop("A", msg)

NextLossy ==
    \/ SendLossy
    \/ Sender
    \/ ackTimeout("A")
    \/ Receive
    \/ DropData("B")

\* A has one more message to send.
InitLossy ==
    /\ InSession
    /\ taken = [p \in Peers |-> IF p = "A" THEN MaxMsgs - 1 ELSE 0]
    /\ nextSeq = [p \in Peers |-> Counter(0)]
    /\ pool = {}
    /\ subject = NoSubject

SpecLossy ==
    /\ InitLossy
    /\ [][NextLossy]_vars
    /\ WF_vars(Sender)
    /\ WF_vars(ackTimeout("A"))
    /\ \A p \in Peers : WF_vars(Deliver(p))

(***************************************************************************)
(* Harness: the fragments of one text handed to acceptData in any order.   *)
(***************************************************************************)
Fragments(text, seq) ==
    {Packet(text, seq, TotalOf(text), i) : i \in 0..(TotalOf(text) - 1)}

InitPerm ==
    /\ InSession
    /\ taken = [p \in Peers |-> 0]
    /\ nextSeq = [p \in Peers |-> Counter(0)]
    /\ \E text \in PermTexts, seq \in PermSeqs :
          /\ subject = [text |-> text, seq |-> seq, reordered |-> FALSE]
          /\ pool = Fragments(text, seq)

FeedFragment ==
    \E pkt \in pool :
       /\ pool' = pool \ {pkt}
       /\ subject' = [subject EXCEPT !.reordered = @ \/ \E q \in pool : q[4] < pkt[4]]
       /\ fedCount' = fedCount + 1
       /\ AcceptData("B", pkt[2], pkt[3], pkt[4], SubSeq(pkt, headerSize + 1, Len(pkt)))
       /\ UNCHANGED <<peerVars, componentVars, discarded, storedAt, locks, acking, nextSeq, pendingAcks, ackCh,
                      statusCh, link, now, snd, returned, taken>>

SpecPerm == InitPerm /\ [][FeedFragment]_vars

(***************************************************************************)
(* Harness: one Transport handed arbitrary DATA packets, with session      *)
(* events and the clock in between.  The payload of a packet is one byte   *)
(* that tells its total, its idx and a variant.                            *)
(***************************************************************************)
Code(total, idx, v) == 16 * total + 2 * idx + v

Shapes == {<<0, 0>>, <<1, 0>>, <<2, 0>>, <<2, 1>>, <<2, 2>>, <<3, 0>>, <<3, 1>>, <<3, 2>>}

FuzzPackets ==
    {<<packetData, seq, sh[1], sh[2], Code(sh[1], sh[2], v)>> :
        seq \in {1, 2}, sh \in Shapes, v \in {0, 1}}

RxData ==
    /\ fedCount < MaxRx
    /\ link["A"] = <<>>
    /\ fedCount' = fedCount + 1
    /\ \E pkt \in FuzzPackets : OnReceivePacket("B", pkt, link)
    /\ UNCHANGED <<sessionVars, discoveryVars, linkVars, tornDown, componentVars, pool, subject, discarded, storedAt, locks, acking, nextSeq, pendingAcks,
                   statusCh, now, snd, returned, taken>>

\* The ACK written for a DATA packet leaves the Link.
RxAckGone ==
    /\ link["A"] # <<>>
    /\ link' = [link EXCEPT !["A"] = Tail(@)]
    /\ UNCHANGED <<peerVars, componentVars, harnessVars, nextSeq, pendingAcks, ackCh, reassembly,
                   recvCh, statusCh, now, snd, returned, taken>>

SessionEvent ==
    /\ OnConnected("B")
    /\ UNCHANGED <<peerVars, componentVars, harnessVars, nextSeq, recvCh, statusCh, link, now, snd,
                   returned, taken>>

NextRx ==
    \/ RxData
    \/ RxAckGone
    \/ SessionEvent
    \/ Tick

InitRx ==
    /\ InSession
    /\ taken = [p \in Peers |-> 0]
    /\ nextSeq = [p \in Peers |-> Counter(0)]
    /\ pool = {}
    /\ subject = NoSubject

SpecRx == InitRx /\ [][NextRx]_vars

(***************************************************************************)
(* Peer: session install.  Both run under Peer.mu, OnConnected included.   *)
(***************************************************************************)
setConnectedAsCentral(p, client) ==
    /\ centralClient' = [centralClient EXCEPT ![p] = client]
    /\ isCentral' = [isCentral EXCEPT ![p] = TRUE]
    /\ connected' = [connected EXCEPT ![p] = TRUE]
    /\ OnConnected(p)

setConnectedAsPeripheral(p) ==
    /\ centralClient' = [centralClient EXCEPT ![p] = 0]
    /\ isCentral' = [isCentral EXCEPT ![p] = FALSE]
    /\ connected' = [connected EXCEPT ![p] = TRUE]
    /\ OnConnected(p)

(***************************************************************************)
(* Peer.handleDisconnect, one action for each of its steps: the Swap, the  *)
(* section under Peer.mu, client.Close, Transport.OnDisconnected and the   *)
(* publication of the reason.                                              *)
(***************************************************************************)
\* A Once that runs its function at every call.
OnceNever(p, c) == FALSE

\* sync.Once: the function of c.once has run.
OnceDone(p, c) == c \in once[p]

\* CentralClient.signalDisconnect: once.Do(close(c.disconnected)).
signalDisconnect(p, c) ==
    IF OnceDone(p, c)
    THEN UNCHANGED <<once, closes, disconnected>>
    ELSE /\ once' = [once EXCEPT ![p] = @ \cup {c}]
         /\ closes' = [closes EXCEPT ![p][c] = @ + 1]
         /\ disconnected' = [disconnected EXCEPT ![p] = @ \cup {c}]

\* A handleDisconnect that reads connected and leaves it as it is.
SwapLoads(p) == connected

\* connected.Swap(false): connected after it.
Swapped(p) == [connected EXCEPT ![p] = FALSE]

hdSwap(p, h) ==
    /\ hd[p][h].pc = "swap"
    /\ connected' = Swapped(p)
    /\ hd' = [hd EXCEPT ![p][h] =
                 IF connected[p] THEN [@ EXCEPT !.pc = "lock", !.sess = session[p]]
                                 ELSE FreeHD]
    /\ UNCHANGED <<isCentral, centralClient, discoveryVars, linkVars, componentVars, harnessVars,
                   nextSeq, pendingAcks, ackCh, reassembly, recvCh, statusCh, link, now,
                   snd, returned, taken, tornDown>>

\* handleDisconnect inside mu: the client is taken and set to nil, and the
\* role flag is cleared, before the mutex is released.
RoleKept(p) == isCentral

RoleCleared(p) == [isCentral EXCEPT ![p] = FALSE]

hdLocked(p, h) ==
    /\ hd[p][h].pc = "lock"
    /\ hd' = [hd EXCEPT ![p][h].client = centralClient[p], ![p][h].pc = "close"]
    /\ centralClient' = [centralClient EXCEPT ![p] = 0]
    /\ isCentral' = RoleCleared(p)
    /\ UNCHANGED <<connected, discoveryVars, linkVars, componentVars, harnessVars, nextSeq,
                   pendingAcks, ackCh, reassembly, recvCh, statusCh, link, now, snd,
                   returned, taken, tornDown>>

\* CentralClient.Close: the Disconnected channel is closed and the device
\* is disconnected, with the frames in flight.
hdClose(p, h) ==
    /\ hd[p][h].pc = "close"
    /\ hd' = [hd EXCEPT ![p][h].pc = "onDisc"]
    /\ IF hd[p][h].client # 0
       THEN /\ signalDisconnect(p, hd[p][h].client)
            /\ alive' = [alive EXCEPT ![p] = @ \ {hd[p][h].client}]
            /\ link' = IF hd[p][h].client \in alive[p] THEN [q \in Peers |-> <<>>] ELSE link
       ELSE UNCHANGED <<once, closes, disconnected, alive, link>>
    /\ UNCHANGED <<sessionVars, discoveryVars, inbound, timerVars, closing, dbusVars, harnessVars, nextSeq,
                   pendingAcks, ackCh, reassembly, recvCh, statusCh, now, snd,
                   returned, taken, tornDown>>

hdOnDisconnected(p, h) ==
    /\ hd[p][h].pc = "onDisc"
    /\ hd' = [hd EXCEPT ![p][h].pc = "status"]
    /\ OnConnected(p)
    /\ UNCHANGED <<sessionVars, discoveryVars, linkVars, componentVars, harnessVars, nextSeq, recvCh,
                   statusCh, link, now, snd, returned, taken, tornDown>>

hdPublish(p, h) ==
    /\ hd[p][h].pc = "status"
    /\ statusCh' = publishStatus(statusCh, p, hd[p][h].reason)
    /\ tornDown' = [tornDown EXCEPT ![p] =
                       IF Len(statusCh'[p]) > Len(statusCh[p])
                       THEN @ \cup {hd[p][h].sess} ELSE @]
    /\ hd' = [hd EXCEPT ![p][h] = FreeHD]
    /\ UNCHANGED <<sessionVars, discoveryVars, linkVars, componentVars, harnessVars, nextSeq,
                   pendingAcks, ackCh, reassembly, recvCh, link, now, snd, returned,
                   taken>>

handleDisconnect(p) ==
    \E h \in Slots :
       \/ hdSwap(p, h)
       \/ hdLocked(p, h)
       \/ hdClose(p, h)
       \/ hdOnDisconnected(p, h)
       \/ hdPublish(p, h)

(***************************************************************************)
(* The goroutine started by connectAndSubscribePlatform: it waits for the  *)
(* client's Disconnected channel and calls handleDisconnect.               *)
(***************************************************************************)
watcher(p) ==
    \E c \in watching[p] \cap disconnected[p] :
       /\ HasFree(p)
       /\ hd' = Spawned(p, <<"Disconnected from">>, c)
       /\ watching' = [watching EXCEPT ![p] = @ \ {c}]
       /\ UNCHANGED <<sessionVars, disc, pIncoming, session, cycles, linkVars,
                      componentVars, harnessVars, nextSeq, pendingAcks, ackCh, reassembly, recvCh,
                      statusCh, link, now, snd, returned, taken, tornDown>>

(***************************************************************************)
(* Peer.discoveryLoop, one action for each of its steps.                   *)
(***************************************************************************)
\* A discovery loop that does not look at connected.
NeverWaits(p) == FALSE

\* The check at the top of the loop.
Waits(p) == connected[p]

discTop(p) ==
    /\ disc[p] = "top"
    /\ IF Waits(p)
       THEN /\ disc' = [disc EXCEPT ![p] = "waiting"]
            /\ UNCHANGED statusCh
       ELSE /\ disc' = [disc EXCEPT ![p] = "advertise"]
            /\ statusCh' = publishStatus(statusCh, p, <<"Discovery: advertising">>)
    /\ UNCHANGED <<sessionVars, pIncoming, watching, session, cycles, linkVars, hd,
                   componentVars, harnessVars, nextSeq, pendingAcks, ackCh, reassembly, recvCh, link,
                   now, snd, returned, taken, tornDown>>

\* waitUntilDisconnected returns.
discWait(p) ==
    /\ disc[p] = "waiting"
    /\ ~connected[p]
    /\ disc' = [disc EXCEPT ![p] = "top"]
    /\ UNCHANGED <<sessionVars, pIncoming, watching, session, cycles, linkVars, hd,
                   componentVars, harnessVars, nextSeq, pendingAcks, ackCh, reassembly, recvCh,
                   statusCh, link, now, snd, returned, taken, tornDown>>

\* select: a device on pIncoming.
discIncoming(p) ==
    /\ disc[p] = "advertise"
    /\ pIncoming[p] > 0
    /\ session[p] < MaxSessions
    /\ pIncoming' = [pIncoming EXCEPT ![p] = @ - 1]
    /\ setConnectedAsPeripheral(p)
    /\ statusCh' = publishStatus(statusCh, p, <<"Connected as Peripheral to">>)
    /\ session' = [session EXCEPT ![p] = @ + 1]
    /\ disc' = [disc EXCEPT ![p] = "top"]
    /\ UNCHANGED <<watching, cycles, linkVars, hd, componentVars, harnessVars, nextSeq, recvCh, link,
                   now, snd, returned, taken, tornDown>>

\* select: time.After(advDuration), or adv.Start failed.
discAdvTimeout(p) ==
    /\ disc[p] = "advertise"
    /\ pIncoming[p] = 0
    /\ disc' = [disc EXCEPT ![p] = "recheck"]
    /\ UNCHANGED <<sessionVars, pIncoming, watching, session, cycles, linkVars, hd,
                   componentVars, harnessVars, nextSeq, pendingAcks, ackCh, reassembly, recvCh,
                   statusCh, link, now, snd, returned, taken, tornDown>>

discRecheck(p) ==
    /\ disc[p] = "recheck"
    /\ IF connected[p]
       THEN /\ disc' = [disc EXCEPT ![p] = "top"]
            /\ UNCHANGED statusCh
       ELSE /\ disc' = [disc EXCEPT ![p] = "scan"]
            /\ statusCh' = publishStatus(statusCh, p, <<"Discovery: scanning">>)
    /\ UNCHANGED <<sessionVars, pIncoming, watching, session, cycles, linkVars, hd,
                   componentVars, harnessVars, nextSeq, pendingAcks, ackCh, reassembly, recvCh, link,
                   now, snd, returned, taken, tornDown>>

\* scanForPeer finds nothing in its window.
discScanNone(p) ==
    /\ disc[p] = "scan"
    /\ cycles[p] < MaxCycles
    /\ cycles' = [cycles EXCEPT ![p] = @ + 1]
    /\ disc' = [disc EXCEPT ![p] = "top"]
    /\ UNCHANGED <<sessionVars, pIncoming, watching, session, linkVars, hd,
                   componentVars, harnessVars, nextSeq, pendingAcks, ackCh, reassembly, recvCh,
                   statusCh, link, now, snd, returned, taken, tornDown>>

discScanFound(p) ==
    /\ disc[p] = "scan"
    /\ session[p] < MaxSessions
    /\ statusCh' = publishStatus(statusCh, p, <<"Peer found">>)
    /\ disc' = [disc EXCEPT ![p] = "connect"]
    /\ UNCHANGED <<sessionVars, pIncoming, watching, session, cycles, linkVars, hd,
                   componentVars, harnessVars, nextSeq, pendingAcks, ackCh, reassembly, recvCh, link,
                   now, snd, returned, taken, tornDown>>

\* bluez.Connect returns an error.
discConnectFails(p) ==
    /\ disc[p] = "connect"
    /\ cycles[p] < MaxCycles
    /\ cycles' = [cycles EXCEPT ![p] = @ + 1]
    /\ statusCh' = publishStatus(statusCh, p, <<"Connect failed">>)
    /\ disc' = [disc EXCEPT ![p] = "top"]
    /\ UNCHANGED <<sessionVars, pIncoming, watching, session, linkVars, hd,
                   componentVars, harnessVars, nextSeq, pendingAcks, ackCh, reassembly, recvCh, link,
                   now, snd, returned, taken, tornDown>>

\* bluez.Connect returns a client; the goroutine that waits for its
\* Disconnected channel is started.  The client is named after the session
\* that it will carry.
discConnect(p) ==
    /\ disc[p] = "connect"
    /\ alive' = [alive EXCEPT ![p] = @ \cup {session[p] + 1}]
    /\ watching' = [watching EXCEPT ![p] = @ \cup {session[p] + 1}]
    /\ disc' = [disc EXCEPT ![p] = "install"]
    /\ UNCHANGED <<sessionVars, pIncoming, session, cycles, disconnected, inbound, hd,
                   componentVars, harnessVars, nextSeq, pendingAcks, ackCh, reassembly, recvCh,
                   statusCh, link, now, snd, returned, taken, tornDown>>

discInstall(p) ==
    /\ disc[p] = "install"
    /\ setConnectedAsCentral(p, session[p] + 1)
    /\ statusCh' = publishStatus(statusCh, p, <<"Connected as Central to">>)
    /\ session' = [session EXCEPT ![p] = @ + 1]
    /\ disc' = [disc EXCEPT ![p] = "top"]
    /\ UNCHANGED <<pIncoming, watching, cycles, linkVars, hd, componentVars, harnessVars, nextSeq,
                   recvCh, link, now, snd, returned, taken, tornDown>>

discoveryLoop(p) ==
    \/ discTop(p)
    \/ discWait(p)
    \/ discIncoming(p)
    \/ discAdvTimeout(p)
    \/ discRecheck(p)
    \/ discScanNone(p)
    \/ discScanFound(p)
    \/ discConnectFails(p)
    \/ discConnect(p)
    \/ discInstall(p)

(***************************************************************************)
(* The connect handler of the local GATT server, and the BLE connections.  *)
(***************************************************************************)
\* A remote central connects: the handler queues the device, if there is room.
connectHandlerUp(p) ==
    /\ ~inbound[p]
    /\ session[p] + pIncoming[p] < MaxSessions
    /\ inbound' = [inbound EXCEPT ![p] = TRUE]
    /\ pIncoming' = [pIncoming EXCEPT ![p] = IF @ < incomingCap THEN @ + 1 ELSE @]
    /\ UNCHANGED <<sessionVars, disc, watching, session, cycles, disconnected, alive, hd,
                   componentVars, harnessVars, nextSeq, pendingAcks, ackCh, reassembly, recvCh,
                   statusCh, link, now, snd, returned, taken, tornDown>>

\* The remote central disconnects: the handler calls handleDisconnect.
connectHandlerDown(p) ==
    /\ inbound[p]
    /\ HasFree(p)
    /\ inbound' = [inbound EXCEPT ![p] = FALSE]
    /\ hd' = Spawned(p, <<"Disconnected from">>, 0)
    /\ link' = [q \in Peers |-> <<>>]
    /\ UNCHANGED <<sessionVars, discoveryVars, disconnected, alive, componentVars, harnessVars,
                   nextSeq, pendingAcks, ackCh, reassembly, recvCh, statusCh, now, snd,
                   returned, taken, tornDown>>

\* The device of a client disconnects: its Disconnected channel is closed.
deviceDisconnects(p) ==
    \E c \in alive[p] :
       /\ alive' = [alive EXCEPT ![p] = @ \ {c}]
       /\ signalDisconnect(p, c)
       /\ link' = [q \in Peers |-> <<>>]
       /\ UNCHANGED <<sessionVars, discoveryVars, inbound, hd, timerVars, closing, dbusVars, harnessVars, nextSeq,
                      pendingAcks, ackCh, reassembly, recvCh, statusCh, now, snd,
                      returned, taken, tornDown>>

(***************************************************************************)
(* Peer A from NewPeer on, with the device of B in range.  No message      *)
(* comes on sendCh.                                                        *)
(***************************************************************************)
InitPeer ==
    /\ ComponentsIdle
    /\ connected = [p \in Peers |-> p = "B"]
    /\ isCentral = [p \in Peers |-> FALSE]
    /\ centralClient = [p \in Peers |-> 0]
    /\ nextSeq = [p \in Peers |-> Counter(0)]
    /\ pendingAcks = [p \in Peers |-> {}]
    /\ ackCh = [p \in Peers |-> OpenChan]
    /\ reassembly = [p \in Peers |-> EmptyMap]
    /\ recvCh = [p \in Peers |-> <<>>]
    /\ statusCh = [p \in Peers |-> <<>>]
    /\ link = [p \in Peers |-> <<>>]
    /\ now = 0
    /\ snd = [p \in Peers |-> IdleSnd]
    /\ returned = [p \in Peers |-> <<>>]
    /\ taken = [p \in Peers |-> 0]
    /\ pool = {}
    /\ subject = NoSubject
    /\ fedCount = 0
    /\ disc = [p \in Peers |-> IF p = "A" THEN "top" ELSE "waiting"]
    /\ pIncoming = [p \in Peers |-> 0]
    /\ hd = [p \in Peers |-> [h \in Slots |-> FreeHD]]
    /\ watching = [p \in Peers |-> {}]
    /\ disconnected = [p \in Peers |-> {}]
    /\ alive = [p \in Peers |-> {}]
    /\ inbound = [p \in Peers |-> p = "B"]
    /\ session = [p \in Peers |-> 0]
    /\ cycles = [p \in Peers |-> 0]
    /\ tornDown = [p \in Peers |-> {}]

NextPeer ==
    \/ discoveryLoop("A")
    \/ handleDisconnect("A")
    \/ watcher("A")
    \/ connectHandlerUp("A")
    \/ connectHandlerDown("A")
    \/ deviceDisconnects("A")

\* Every goroutine that can run is scheduled: the discovery loop at its
\* checks of connected, the waiting goroutine of a client, every call of
\* handleDisconnect.
SpecPeer ==
    /\ InitPeer
    /\ [][NextPeer]_vars
    /\ WF_vars(discTop("A"))
    /\ WF_vars(discWait("A"))
    /\ WF_vars(watcher("A"))
    /\ \A h \in Slots :
          /\ WF_vars(hdSwap("A", h))
          /\ WF_vars(hdLocked("A", h))
          /\ WF_vars(hdClose("A", h))
          /\ WF_vars(hdOnDisconnected("A", h))
          /\ WF_vars(hdPublish("A", h))

(***************************************************************************)
(* The writer of peer A in a session as central that may end: writeLoop    *)
(* and SendMessage against the loss of the device and handleDisconnect.    *)
(***************************************************************************)
PeerTexts == {MkText(1, 0), MkText(17, 0)}

InitWriter ==
    /\ InSession
    /\ taken = [p \in Peers |-> 0]
    /\ nextSeq = [p \in Peers |-> Counter(0)]
    /\ pool = {}
    /\ subject = NoSubject

SendPeer == \E msg \in PeerTexts : writeLoop("A", msg)

NextWriter ==
    \/ SendPeer
    \/ Sender
    \/ ackClosed("A")
    \/ Receive
    \/ deviceDisconnects("A")
    \/ watcher("A")
    \/ handleDisconnect("A")

SpecWriter == InitWriter /\ [][NextWriter]_vars

(***************************************************************************)
(* The writer of peer A in a session in either role, on a Link whose       *)
(* writes may start to fail with no disconnect event: WriteNoResponse      *)
(* returns the error of its D-Bus call, a notification cannot be sent.     *)
(* The remote peer sends DATA packets, which peer A acknowledges.          *)
(***************************************************************************)
Roles == {"central", "peripheral"}

\* A session between A and B in which c is the central.
SessionAs(c) ==
    /\ ComponentsIdle
    /\ connected = [p \in Peers |-> TRUE]
    /\ isCentral = [p \in Peers |-> p = c]
    /\ centralClient = [p \in Peers |-> IF p = c THEN 1 ELSE 0]
    /\ pendingAcks = [p \in Peers |-> {}]
    /\ ackCh = [p \in Peers |-> OpenChan]
    /\ reassembly = [p \in Peers |-> EmptyMap]
    /\ recvCh = [p \in Peers |-> <<>>]
    /\ statusCh = [p \in Peers |-> <<>>]
    /\ link = [p \in Peers |-> <<>>]
    /\ now = 0
    /\ snd = [p \in Peers |-> IdleSnd]
    /\ returned = [p \in Peers |-> <<>>]
    /\ fedCount = 0
    /\ disc = [p \in Peers |-> "waiting"]
    /\ pIncoming = [p \in Peers |-> 0]
    /\ hd = [p \in Peers |-> [h \in Slots |-> FreeHD]]
    /\ watching = [p \in Peers |-> IF p = c THEN {1} ELSE {}]
    /\ disconnected = [p \in Peers |-> {}]
    /\ alive = [p \in Peers |-> IF p = c THEN {1} ELSE {}]
    /\ inbound = [p \in Peers |-> p # c]
    /\ session = [p \in Peers |-> 1]
    /\ cycles = [p \in Peers |-> 0]
    /\ tornDown = [p \in Peers |-> {}]

InitRoles ==
    /\ \E role \in Roles : SessionAs(IF role = "central" THEN "A" ELSE "B")
    /\ taken = [p \in Peers |-> 0]
    /\ nextSeq = [p \in Peers |-> Counter(0)]
    /\ pool = {}
    /\ subject = NoSubject

\* From now on the writes of p on the Link fail; the frames in flight are lost.
linkFails(p) ==
    /\ connected[p]
    /\ WriteOK(p)
    /\ IF isCentral[p]
       THEN /\ alive' = [alive EXCEPT ![p] = @ \ {centralClient[p]}]
            /\ UNCHANGED inbound
       ELSE /\ inbound' = [inbound EXCEPT ![p] = FALSE]
            /\ UNCHANGED alive
    /\ link' = [q \in Peers |-> <<>>]
    /\ UNCHANGED <<sessionVars, discoveryVars, disconnected, hd, componentVars, harnessVars,
                   nextSeq, pendingAcks, ackCh, reassembly, recvCh, statusCh, now, snd,
                   returned, taken, tornDown>>

\* A DATA packet of the remote peer is in flight towards p.
RemotePackets == {<<packetData, 1, 1, 0, 7>>, <<packetData, 2, 2, 0, 7>>}

remoteData(p) ==
    /\ fedCount < MaxRemote
    /\ connected[p]
    /\ fedCount' = fedCount + 1
    /\ \E pkt \in RemotePackets : link' = [link EXCEPT ![p] = Append(@, pkt)]
    /\ UNCHANGED <<peerVars, componentVars, pool, subject, discarded, storedAt, locks, acking, nextSeq, pendingAcks, ackCh,
                   reassembly, recvCh, statusCh, now, snd, returned, taken>>

NextRoles ==
    \/ SendPeer
    \/ Sender
    \/ ackClosed("A")
    \/ ackTimeout("A")
    \/ Receive
    \/ remoteData("A")
    \/ linkFails("A")
    \/ watcher("A")
    \/ handleDisconnect("A")

\* Every call of handleDisconnect is scheduled.
SpecRoles ==
    /\ InitRoles
    /\ [][NextRoles]_vars
    /\ WF_vars(watcher("A"))
    /\ \A h \in Slots :
          /\ WF_vars(hdSwap("A", h))
          /\ WF_vars(hdLocked("A", h))
          /\ WF_vars(hdClose("A", h))
          /\ WF_vars(hdOnDisconnected("A", h))
          /\ WF_vars(hdPublish("A", h))

(***************************************************************************)
(* Two peers that both run discoveryLoop, with its timers.  wall is the    *)
(* time in milliseconds; the clock that peer p reads shows                 *)
(* wall * nsPerMs + clockSkew[p] nanoseconds.  The steps of the loop take  *)
(* no time; time passes only while both loops sit in a timed wait.  A scan *)
(* finds the other peer exactly while that peer's advertising window is    *)
(* open.                                                                   *)
(***************************************************************************)
\* What the timed discovery loop leaves alone.
transportVars == <<nextSeq, pendingAcks, ackCh, reassembly, recvCh, link, now, snd,
                   returned, taken>>

\* (a * b) % n, without forming a * b.
MulMod(a, b, n) == ((a % n) * (b % n)) % n

\* time.Now().UnixNano() % n as peer p reads it.
UnixNanoMod(p, n) == (MulMod(wall, nsPerMs, n) + clockSkew[p]) % n

randIntn(p, n) == IF n <= 0 THEN 0 ELSE UnixNanoMod(p, n)

randomPhaseDuration(p, minMs, spanMs) == minMs + randIntn(p, spanMs)

\* The advertising window of q is open.
Advertising(q) == disc[q] = "advertise" /\ wall < deadline[q]

timedTop(p) ==
    /\ disc[p] = "top"
    /\ IF connected[p]
       THEN /\ disc' = [disc EXCEPT ![p] = "waiting"]
            /\ UNCHANGED <<statusCh, deadline>>
       ELSE /\ disc' = [disc EXCEPT ![p] = "advertise"]
            /\ deadline' = [deadline EXCEPT
                               ![p] = wall + randomPhaseDuration(p, advMinMs, advSpanMs)]
            /\ statusCh' = publishStatus(statusCh, p, <<"Discovery: advertising">>)
    /\ UNCHANGED <<sessionVars, pIncoming, watching, session, cycles, linkVars, hd,
                   tornDown, wall, clockSkew, onceVars, dbusVars, harnessVars,
                   transportVars>>

\* select: a device on pIncoming.
timedIncoming(p) ==
    /\ disc[p] = "advertise"
    /\ pIncoming[p] > 0
    /\ pIncoming' = [pIncoming EXCEPT ![p] = @ - 1]
    /\ setConnectedAsPeripheral(p)
    /\ statusCh' = publishStatus(statusCh, p, <<"Connected as Peripheral to">>)
    /\ session' = [session EXCEPT ![p] = @ + 1]
    /\ disc' = [disc EXCEPT ![p] = "top"]
    /\ UNCHANGED <<watching, cycles, linkVars, hd, tornDown, componentVars, harnessVars,
                   nextSeq, recvCh, link, now, snd, returned, taken>>

\* select: time.After(advDuration).
timedAdvTimeout(p) ==
    /\ disc[p] = "advertise"
    /\ wall >= deadline[p]
    /\ disc' = [disc EXCEPT ![p] = "recheck"]
    /\ UNCHANGED <<sessionVars, pIncoming, watching, session, cycles, linkVars, hd,
                   tornDown, componentVars, harnessVars, statusCh, transportVars>>

timedRecheck(p) ==
    /\ disc[p] = "recheck"
    /\ IF connected[p]
       THEN /\ disc' = [disc EXCEPT ![p] = "top"]
            /\ UNCHANGED <<statusCh, deadline>>
       ELSE /\ disc' = [disc EXCEPT ![p] = "scan"]
            /\ deadline' = [deadline EXCEPT
                               ![p] = wall + randomPhaseDuration(p, scanMinMs, scanSpanMs)]
            /\ statusCh' = publishStatus(statusCh, p, <<"Discovery: scanning">>)
    /\ UNCHANGED <<sessionVars, pIncoming, watching, session, cycles, linkVars, hd,
                   tornDown, wall, clockSkew, onceVars, dbusVars, harnessVars,
                   transportVars>>

\* scanForPeer: the scan callback sees the advertisement of the other peer.
timedScanFound(p) ==
    /\ disc[p] = "scan"
    /\ wall < deadline[p]
    /\ Advertising(Other(p))
    /\ statusCh' = publishStatus(statusCh, p, <<"Peer found">>)
    /\ disc' = [disc EXCEPT ![p] = "connect"]
    /\ UNCHANGED <<sessionVars, pIncoming, watching, session, cycles, linkVars, hd,
                   tornDown, componentVars, harnessVars, transportVars>>

\* scanForPeer: the timer stops the scan, nothing was found.
timedScanNone(p) ==
    /\ disc[p] = "scan"
    /\ wall >= deadline[p]
    /\ cycles[p] < DuoCycles
    /\ cycles' = [cycles EXCEPT ![p] = @ + 1]
    /\ disc' = [disc EXCEPT ![p] = "top"]
    /\ UNCHANGED <<sessionVars, pIncoming, watching, session, linkVars, hd, tornDown,
                   componentVars, harnessVars, statusCh, transportVars>>

\* connectAndSubscribe: the connection is made while the other peer still
\* advertises, and its connect handler queues the device; otherwise it fails.
timedConnect(p) ==
    /\ disc[p] = "connect"
    /\ IF Advertising(Other(p))
       THEN /\ setConnectedAsCentral(p, session[p] + 1)
            /\ pIncoming' = [pIncoming EXCEPT
                                ![Other(p)] = IF @ < incomingCap THEN @ + 1 ELSE @]
            /\ session' = [session EXCEPT ![p] = @ + 1]
            /\ statusCh' = publishStatus(statusCh, p, <<"Connected as Central to">>)
       ELSE /\ statusCh' = publishStatus(statusCh, p, <<"Connect failed">>)
            /\ UNCHANGED <<sessionVars, pIncoming, session, pendingAcks, ackCh,
                           reassembly>>
    /\ disc' = [disc EXCEPT ![p] = "top"]
    /\ UNCHANGED <<watching, cycles, linkVars, hd, tornDown, componentVars, harnessVars,
                   nextSeq, recvCh, link, now, snd, returned, taken>>

timedDiscovery(p) ==
    \/ timedTop(p)
    \/ timedIncoming(p)
    \/ timedAdvTimeout(p)
    \/ timedRecheck(p)
    \/ timedScanFound(p)
    \/ timedScanNone(p)
    \/ timedConnect(p)

\* The loop of p has a step to take at this instant.
Urgent(p) ==
    \/ disc[p] \in {"top", "recheck", "connect"}
    \/ disc[p] = "advertise" /\ (pIncoming[p] > 0 \/ wall >= deadline[p])
    \/ disc[p] = "scan" /\ (Advertising(Other(p)) \/ wall >= deadline[p])

Timed == {p \in Peers : disc[p] \in {"advertise", "scan"}}

\* Time passes up to the next timer.
timedPass ==
    /\ \A p \in Peers : ~Urgent(p)
    /\ Timed # {}
    /\ wall' = CHOOSE t \in {deadline[p] : p \in Timed} :
                  \A q \in Timed : t <= deadline[q]
    /\ UNCHANGED <<peerVars, deadline, clockSkew, onceVars, dbusVars, harnessVars,
                   statusCh, transportVars>>

\* Both peers start their loops at the same instant.
InitDuo ==
    /\ connected = [p \in Peers |-> FALSE]
    /\ isCentral = [p \in Peers |-> FALSE]
    /\ centralClient = [p \in Peers |-> 0]
    /\ nextSeq = [p \in Peers |-> Counter(0)]
    /\ pendingAcks = [p \in Peers |-> {}]
    /\ ackCh = [p \in Peers |-> OpenChan]
    /\ reassembly = [p \in Peers |-> EmptyMap]
    /\ recvCh = [p \in Peers |-> <<>>]
    /\ statusCh = [p \in Peers |-> <<>>]
    /\ link = [p \in Peers |-> <<>>]
    /\ now = 0
    /\ snd = [p \in Peers |-> IdleSnd]
    /\ returned = [p \in Peers |-> <<>>]
    /\ taken = [p \in Peers |-> 0]
    /\ pool = {}
    /\ subject = NoSubject
    /\ fedCount = 0
    /\ disc = [p \in Peers |-> "top"]
    /\ pIncoming = [p \in Peers |-> 0]
    /\ hd = [p \in Peers |-> [h \in Slots |-> FreeHD]]
    /\ watching = [p \in Peers |-> {}]
    /\ disconnected = [p \in Peers |-> {}]
    /\ alive = [p \in Peers |-> {}]
    /\ inbound = [p \in Peers |-> FALSE]
    /\ session = [p \in Peers |-> 0]
    /\ cycles = [p \in Peers |-> 0]
    /\ tornDown = [p \in Peers |-> {}]
    /\ wall \in StartWalls
    /\ deadline = [p \in Peers |-> 0]
    /\ clockSkew \in [Peers -> Skews]
    /\ once = [p \in Peers |-> {}]
    /\ closes = [p \in Peers |-> [c \in Clients |-> 0]]
    /\ closing = [p \in Peers |-> [c \in Clients |-> 0]]
    /\ discarded = [p \in Peers |-> 0]
    /\ storedAt = [s \in FuzzSeqs |-> 0]
    /\ acking = [p \in Peers |-> IdleSig]
    /\ locks = NoneHeld
    /\ dconn = OpenConn
    /\ caller = [k \in Callers |-> IdleCaller]
    /\ boot = IdleBoot
    /\ dial = IdleDial
    /\ dec = IdleDec

NextDuo ==
    \/ \E p \in Peers : timedDiscovery(p)
    \/ timedPass

SpecDuo == InitDuo /\ [][NextDuo]_vars /\ WF_vars(NextDuo)

(***************************************************************************)
(* The CentralClients on their own: any caller may call Close, any number  *)
(* of times; a write on a client whose device is gone fails; BlueZ reports *)
(* the change of the Connected property.                                   *)
(***************************************************************************)
clientFrame ==
    <<sessionVars, discoveryVars, inbound, hd, tornDown, timerVars, dbusVars,
      harnessVars, transportVars, statusCh>>

\* bluez.Connect returns client c, its device connected.
clientConnect(p, c) ==
    /\ c \notin alive[p]
    /\ c \notin once[p]
    /\ closing[p][c] = 0
    /\ alive' = [alive EXCEPT ![p] = @ \cup {c}]
    /\ UNCHANGED <<once, closes, closing, disconnected, clientFrame>>

\* CentralClient.Close, its first statement: signalDisconnect.
closeBegin(p, c) ==
    /\ closing[p][c] < MaxCloses
    /\ closing' = [closing EXCEPT ![p][c] = @ + 1]
    /\ signalDisconnect(p, c)
    /\ UNCHANGED <<alive, clientFrame>>

\* CentralClient.Close, its second statement: the device is disconnected.
closeEnd(p, c) ==
    /\ closing[p][c] > 0
    /\ closing' = [closing EXCEPT ![p][c] = @ - 1]
    /\ alive' = [alive EXCEPT ![p] = @ \ {c}]
    /\ UNCHANGED <<once, closes, disconnected, clientFrame>>

\* The signal goroutine of Connect: Connected has changed to false.
propertyChanged(p, c) ==
    /\ c \in alive[p]
    /\ alive' = [alive EXCEPT ![p] = @ \ {c}]
    /\ signalDisconnect(p, c)
    /\ UNCHANGED <<closing, clientFrame>>

\* WriteNoResponse on a client whose device is gone: the write fails, and
\* the darwin client signals the disconnect.
writeFailed(p, c) ==
    /\ c \notin alive[p]
    /\ c \in once[p] \/ closing[p][c] > 0
    /\ signalDisconnect(p, c)
    /\ UNCHANGED <<alive, closing, clientFrame>>

NextClient ==
    \E p \in Peers, c \in Clients :
       \/ clientConnect(p, c)
       \/ closeBegin(p, c)
       \/ closeEnd(p, c)
       \/ propertyChanged(p, c)
       \/ writeFailed(p, c)

SpecClient == InitPeer /\ [][NextClient]_vars

(***************************************************************************)
(* dbus.Conn: the callers of Object.Call, readLoop, Close, and the bus at  *)
(* the other end of the socket.                                            *)
(***************************************************************************)
busFrame ==
    <<sessionVars, discoveryVars, linkVars, hd, tornDown, timerVars, onceVars,
      harnessVars, transportVars, statusCh, boot, dial, dec>>

\* What the socket's Read returns once the socket is not open.
ReadError(socket) == IF socket = "eof" THEN <<"EOF">> ELSE <<"read error", socket>>

\* c.readErr after a failed read: io.EOF is not recorded.
RecordedError(old, e) == IF e # <<"EOF">> THEN e ELSE old

\* Object.Call up to its return or to the call of waitReply: the serial,
\* then under c.mu the test of closed and the Write.
callBegin(k) ==
    /\ caller[k].pc = "idle"
    /\ LET s == dconn.serial + 1
       IN  IF dconn.closed
           THEN /\ caller' = [caller EXCEPT ![k] =
                                 [@ EXCEPT !.pc = "done", !.serial = s, !.err = <<"os.ErrClosed">>]]
                /\ dconn' = [dconn EXCEPT !.serial = s]
           ELSE IF dconn.socket # "open"
           THEN /\ caller' = [caller EXCEPT ![k] =
                                 [@ EXCEPT !.pc = "done", !.serial = s, !.err = <<"write error">>]]
                /\ dconn' = [dconn EXCEPT !.serial = s]
           ELSE /\ caller' = [caller EXCEPT ![k] = [@ EXCEPT !.pc = "written", !.serial = s]]
                /\ dconn' = [dconn EXCEPT !.serial = s, !.wire = @ \cup {s}]
    /\ UNCHANGED busFrame

\* waitReply: the channel is made and registered under c.mu.
waitRegister(k) ==
    /\ caller[k].pc = "written"
    /\ caller' = [caller EXCEPT ![k].pc = "wait", ![k].ch = <<"empty">>]
    /\ dconn' = [dconn EXCEPT !.pending = @ \cup {caller[k].serial}]
    /\ UNCHANGED busFrame

\* waitReply receives from its channel and returns, the deferred delete
\* runs, and Object.Call builds its Call from what waitReply returned.  With
\* a nil reply and a nil error Call reads reply.Type of the nil reply.
waitWake(k) ==
    /\ caller[k].pc = "wait"
    /\ caller[k].ch # <<"empty">>
    /\ dconn' = [dconn EXCEPT !.pending = @ \ {caller[k].serial}]
    /\ caller' = [caller EXCEPT ![k] =
          IF caller[k].ch = <<"nil">>
          THEN IF dconn.readErr # <<"nil">>
               THEN [@ EXCEPT !.pc = "done", !.ch = <<"empty">>, !.err = dconn.readErr]
               ELSE [@ EXCEPT !.pc = "nil dereference", !.ch = <<"empty">>]
          ELSE IF caller[k].ch = <<"msg", "error">>
          THEN [@ EXCEPT !.pc = "done", !.ch = <<"empty">>, !.err = <<"dbus error">>]
          ELSE [@ EXCEPT !.pc = "done", !.ch = <<"empty">>, !.reply = caller[k].ch]]
    /\ UNCHANGED busFrame

\* A non-blocking send of v on the channel of the caller registered for s.
Routed(s, v) ==
    [k \in Callers |->
        IF caller[k].pc = "wait" /\ caller[k].serial = s /\ caller[k].ch = <<"empty">>
        THEN [caller[k] EXCEPT !.ch = v]
        ELSE caller[k]]

\* readLoop reads the reply of the bus to call s and routes it.
readReply(s, t) ==
    /\ dconn.reader = "running"
    /\ dconn.socket = "open"
    /\ s \in dconn.wire
    /\ dconn' = [dconn EXCEPT !.wire = @ \ {s},
                              !.dropped = IF s \in dconn.pending THEN @ ELSE @ + 1]
    /\ caller' = IF s \in dconn.pending THEN Routed(s, <<"msg", t>>) ELSE caller
    /\ UNCHANGED busFrame

\* A readLoop whose send on sigCh waits for room.
readSignalWaits ==
    /\ dconn.reader = "running"
    /\ dconn.socket = "open"
    /\ dconn.signals < MaxSignals
    /\ dconn.sigCh < sigCap
    /\ dconn' = [dconn EXCEPT !.signals = @ + 1, !.sigCh = @ + 1]
    /\ UNCHANGED <<caller, busFrame>>

\* readLoop reads a signal of the bus: a non-blocking send on sigCh.
readSignal ==
    /\ dconn.reader = "running"
    /\ dconn.socket = "open"
    /\ dconn.signals < MaxSignals
    /\ dconn' = [dconn EXCEPT !.signals = @ + 1,
                              !.sigCh = IF @ < sigCap THEN @ + 1 ELSE @,
                              !.dropped = IF dconn.sigCh < sigCap THEN @ ELSE @ + 1]
    /\ UNCHANGED <<caller, busFrame>>

\* The consumer of Conn.Signal() receives a signal.
takeSignal ==
    /\ dconn.sigCh > 0
    /\ dconn' = [dconn EXCEPT !.sigCh = @ - 1]
    /\ UNCHANGED <<caller, busFrame>>

\* The bus closes the connection (a clean EOF), or the connection breaks.
socketEnds ==
    /\ dconn.socket = "open"
    /\ \E e \in {"eof", "reset"} : dconn' = [dconn EXCEPT !.socket = e]
    /\ UNCHANGED <<caller, busFrame>>

\* Conn.Close.
connClose ==
    /\ dconn' = IF dconn.closed THEN dconn
                ELSE [dconn EXCEPT !.closed = TRUE,
                                   !.socket = IF @ = "open" THEN "closed" ELSE @]
    /\ UNCHANGED <<caller, busFrame>>

\* readLoop: readMessage fails, and the loop ends.
readLoopEnds ==
    /\ dconn.reader = "running"
    /\ dconn.socket # "open"
    /\ dconn' = [dconn EXCEPT
                    !.readErr = RecordedError(@, ReadError(dconn.socket)),
                    !.closed = TRUE,
                    !.sigClosed = TRUE,
                    !.reader = "done",
                    !.atEnd = dconn.pending]
    /\ caller' = [k \in Callers |->
                     IF caller[k].pc = "wait" /\ caller[k].ch = <<"empty">>
                     THEN [caller[k] EXCEPT !.ch = <<"nil">>]
                     ELSE caller[k]]
    /\ UNCHANGED busFrame

NextBus ==
    \/ \E k \in Callers : callBegin(k) \/ waitRegister(k) \/ waitWake(k)
    \/ \E s \in 1..MaxCallers, t \in {"return", "error"} : readReply(s, t)
    \/ readSignal
    \/ takeSignal
    \/ socketEnds
    \/ connClose
    \/ readLoopEnds

SpecBus == InitPeer /\ [][NextBus]_vars

(***************************************************************************)
(* The sender of peer A on a slow Link: an ACK may still be in flight when *)
(* ackTimeout expires, and ACK packets of any key arrive besides those of  *)
(* the receiver.                                                           *)
(***************************************************************************)
\* select: time.After(ackTimeout), while frames are in flight.
ackTimeoutLate(p) ==
    /\ snd[p].pc = "wait"
    /\ ackCh[p].buf = 0
    /\ ~ackCh[p].closed
    /\ \E q \in Peers : link[q] # <<>>
    /\ snd' = [snd EXCEPT ![p] = NextTry(@)]
    /\ now' = now + 1
    /\ UNCHANGED <<peerVars, componentVars, harnessVars, nextSeq, pendingAcks, ackCh, reassembly,
                   recvCh, statusCh, link, returned, taken>>

IsAck(data) == Len(data) >= headerSize /\ data[1] = packetAck

\* signalAck finds no channel for the key of the ACK packet data.
Unregistered(p, data) == IsAck(data) /\ <<data[2], data[4]>> \notin pendingAcks[p]

\* The Link hands its oldest frame to OnReceivePacket of p; discarded counts
\* the ACK packets for which signalAck found no channel.
DeliverLogged(p) ==
    /\ link[p] # <<>>
    /\ OnReceivePacket(p, Head(link[p]), [link EXCEPT ![p] = Tail(@)])
    /\ discarded' = [discarded EXCEPT ![p] =
                         IF Unregistered(p, Head(link[p])) THEN @ + 1 ELSE @]
    /\ UNCHANGED <<sessionVars, discoveryVars, linkVars, tornDown, componentVars, pool,
                   subject, fedCount, storedAt, locks, acking, nextSeq, pendingAcks, statusCh, now, snd,
                   returned, taken>>

FuzzAcks == {<<packetAck, seq, 2, idx>> : seq \in {1, 2}, idx \in {0, 1}}

\* An ACK packet that the receiver did not write is in flight towards p.
strayAck(p) ==
    /\ fedCount < MaxRemote
    /\ fedCount' = fedCount + 1
    /\ \E ack \in FuzzAcks : link' = [link EXCEPT ![p] = Append(@, ack)]
    /\ UNCHANGED <<peerVars, componentVars, pool, subject, discarded, storedAt, locks, acking, nextSeq, pendingAcks,
                   ackCh, reassembly, recvCh, statusCh, now, snd, returned, taken>>

\* One message of two fragments comes on sendCh.
SendTwo == taken["A"] = 0 /\ writeLoop("A", MkText(payloadSize + 1, 0))

NextAcks ==
    \/ SendTwo
    \/ Sender
    \/ ackTimeoutLate("A")
    \/ Deliver("B")
    \/ DeliverLogged("A")
    \/ strayAck("A")

SpecAcks == InitWriter /\ [][NextAcks]_vars

(***************************************************************************)
(* The sender of peer A on a slow Link, with the message counter at 0 or   *)
(* at 255: message k has the one-byte text MkText(1, k), so that the texts *)
(* of two messages differ.                                                 *)
(***************************************************************************)
SendNumbered == writeLoop("A", MkText(1, taken["A"]))

NextWrap ==
    \/ SendNumbered
    \/ Sender
    \/ ackTimeoutLate("A")
    \/ Receive

SpecWrap == Init /\ [][NextWrap]_vars

(***************************************************************************)
(* Harness: the same sender after any number of earlier messages: the      *)
(* counter starts below a multiple of 256, of 65536 and at 2^32 - 1.       *)
(***************************************************************************)
WrapCounters ==
    {Counter(0), Counter(254), Counter(255), Counter(65535),
     [hi |-> 65535, lo |-> 65535]}

InitSeq ==
    /\ InSession
    /\ taken = [p \in Peers |-> 0]
    /\ \E c \in WrapCounters :
          nextSeq = [p \in Peers |-> IF p = "A" THEN c ELSE Counter(0)]
    /\ pool = {}
    /\ subject = NoSubject

SpecSeq == InitSeq /\ [][NextWrap]_vars

(***************************************************************************)
(* dbus.ConnectSystemBus: connectUnix, auth, the Hello call.  A line is a  *)
(* sequence of characters; the bus at the other end of the socket may      *)
(* write any line at any time.                                             *)
(***************************************************************************)
Uids == {0, 1000}

HexDigits == <<"0", "1", "2", "3", "4", "5", "6", "7", "8", "9", "a", "b", "c", "d", "e", "f">>

\* strconv.Itoa as the bytes of its string.
RECURSIVE Itoa(_)
Itoa(n) == IF n < 10 THEN <<48 + n>> ELSE Append(Itoa(n \div 10), 48 + (n % 10))

\* hex.EncodeToString.
RECURSIVE EncodeToString(_)
EncodeToString(bytes) ==
    IF bytes = <<>> THEN <<>>
    ELSE <<HexDigits[(Head(bytes) \div 16) + 1], HexDigits[(Head(bytes) % 16) + 1]>>
         \o EncodeToString(Tail(bytes))

RECURSIVE trimCRLF(_)
trimCRLF(l) ==
    IF Len(l) > 0 /\ l[Len(l)] \in {"CR", "LF"}
    THEN trimCRLF(SubSeq(l, 1, Len(l) - 1))
    ELSE l

\* A test that takes every line that begins with O, K.
IsOKPrefix(l) == Len(l) >= 2 /\ SubSeq(l, 1, 2) = <<"O", "K">>

\* line == "OK" || len(line) > 3 && line[:3] == "OK "
IsOK(l) == l = <<"O", "K">> \/ (Len(l) > 3 /\ SubSeq(l, 1, 3) = <<"O", "K", " ">>)

NulByte == <<0>>

AuthLine(uid) == <<"AUTH EXTERNAL ">> \o EncodeToString(Itoa(uid)) \o <<"CR", "LF">>

BeginLine == <<"BEGIN", "CR", "LF">>

HelloCall(serial) == <<"Hello", serial>>

ServerLines ==
    {<<"O", "K", " ", "7", "f", "CR", "LF">>, <<"O", "K", "CR", "LF">>,
     <<"O", "K", "A", "Y", "CR", "LF">>, <<"R", "E", "J", "CR", "LF">>,
     <<"CR", "LF">>}

\* The answers of the bus to Hello: a METHOD_RETURN with the unique name, a
\* METHOD_RETURN with an empty body, an ERROR.
HelloReplies == {<<"return", <<":", "1", ".", "7">>>>, <<"return", <<>>>>, <<"error", <<>>>>}

\* ConnectSystemBus returns the error err; after connectUnix it has closed
\* the socket.
BootFails(b, err) ==
    [b EXCEPT !.pc = "failed", !.err = err,
              !.socket = IF @ = "none" THEN @ ELSE "closed"]

\* conn.Write(data), and then the position next.
BootWrites(b, data, next) ==
    IF b.socket = "open"
    THEN [b EXCEPT !.sent = Append(@, data), !.pc = next]
    ELSE BootFails(b, <<"write error">>)

\* auth, after the first ReadString has returned.
authFirstLine(b) ==
    IF b.inbox = <<>>
    THEN BootFails(b, <<"EOF">>)
    ELSE LET line == trimCRLF(Head(b.inbox))
             got  == [b EXCEPT !.inbox = Tail(@), !.read = Append(@, line)]
         IN  IF IsOK(line)
             THEN BootWrites(got, BeginLine, "hello")
             ELSE BootWrites(got, AuthLine(b.uid), "read 2")

\* auth, after the second ReadString has returned.
authSecondLine(b) ==
    IF b.inbox = <<>>
    THEN BootFails(b, <<"EOF">>)
    ELSE LET line == trimCRLF(Head(b.inbox))
             got  == [b EXCEPT !.inbox = Tail(@), !.read = Append(@, line)]
         IN  IF ~IsOK(line)
             THEN BootFails(got, <<"dbus: auth failed">>)
             ELSE BootWrites(got, BeginLine, "hello")

\* ConnectSystemBus after waitReply has received from its channel: the
\* deferred delete, the test of the reply, uniqueName, go c.readLoop().
helloReply(b) ==
    LET woke == [b EXCEPT !.pending = @ \ {b.serial}, !.ch = <<"empty">>]
    IN  IF b.ch = <<"nil">>
        THEN BootFails(woke, <<"read error">>)
        ELSE IF b.ch[1] # "return"
        THEN BootFails(woke, <<"dbus: Hello failed">>)
        ELSE [woke EXCEPT !.uniqueName = IF Len(b.ch[2]) >= 4 THEN b.ch[2] ELSE @,
                          !.reader = "running",
                          !.pc = "returned"]

\* The statement at which ConnectSystemBus stands can be executed: a
\* ReadString needs a line or the end of the stream, the receive in
\* waitReply needs a value on the channel.
BootCanRun(b) ==
    IF b.pc \in {"read 1", "read 2"} THEN b.inbox # <<>> \/ b.socket # "open"
    ELSE IF b.pc = "wait" THEN b.ch # <<"empty">>
    ELSE b.pc \notin {"returned", "failed"}

BootStep(b, ok, uid) ==
    IF b.pc = "dial"
    THEN IF ok THEN [b EXCEPT !.pc = "write 0", !.uid = uid, !.socket = "open"]
         ELSE BootFails(b, <<"dial error">>)
    ELSE IF b.pc = "write 0" THEN BootWrites(b, NulByte, "read 1")
    ELSE IF b.pc = "read 1" THEN authFirstLine(b)
    ELSE IF b.pc = "read 2" THEN authSecondLine(b)
    ELSE IF b.pc = "hello"
    THEN BootWrites([b EXCEPT !.serial = @ + 1], HelloCall(b.serial + 1), "register")
    ELSE IF b.pc = "register"
    THEN [b EXCEPT !.pending = @ \cup {b.serial}, !.pc = "wait"]
    ELSE helloReply(b)

bootFrame ==
    <<sessionVars, discoveryVars, linkVars, hd, tornDown, timerVars, onceVars,
      harnessVars, transportVars, statusCh, dconn, caller, dial, dec>>

\* One statement of ConnectSystemBus.  Before line 58 no readLoop runs, so
\* nothing sends on the channel of waitReply.
ConnectSystemBus ==
    /\ BootCanRun(boot)
    /\ \E ok \in BOOLEAN, uid \in Uids : boot' = BootStep(boot, ok, uid)
    /\ UNCHANGED bootFrame

\* The bus writes a line.
serverLine ==
    /\ boot.socket = "open"
    /\ boot.lines < MaxLines
    /\ \E l \in ServerLines :
          boot' = [boot EXCEPT !.inbox = Append(@, l), !.lines = @ + 1]
    /\ UNCHANGED bootFrame

\* The bus closes the connection.
serverCloses ==
    /\ boot.socket = "open"
    /\ boot' = [boot EXCEPT !.socket = "closed"]
    /\ UNCHANGED bootFrame

\* The bus answers the Hello call.
busAnswersHello ==
    /\ boot.socket = "open"
    /\ boot.pc \in {"register", "wait"}
    /\ boot.wire = <<>>
    /\ \E r \in HelloReplies : boot' = [boot EXCEPT !.wire = <<r>>]
    /\ UNCHANGED bootFrame

NextConnect ==
    \/ ConnectSystemBus
    \/ serverLine
    \/ serverCloses
    \/ busAnswersHello

\* The goroutine that called ConnectSystemBus runs whenever it can.
SpecConnect == InitPeer /\ [][NextConnect]_vars /\ WF_vars(ConnectSystemBus)

(***************************************************************************)
(* bluez.Connect: Device1.Connect, the wait for ServicesResolved, the      *)
(* search of the managed objects, StartNotify.  A path is the sequence of  *)
(* its components; the outcome of every D-Bus call is the bus's choice.    *)
(***************************************************************************)
devicePath == <<"hci0", "dev">>

Obj(path, iface, uuid) == [path |-> path, iface |-> iface, uuid |-> uuid]

GattService == Obj(<<"hci0", "dev", "service1">>, "GattService1", "svc")

RxChar == Obj(<<"hci0", "dev", "service1", "char1">>, "GattCharacteristic1", "rx")

TxChar == Obj(<<"hci0", "dev", "service1", "char2">>, "GattCharacteristic1", "tx")

\* The replies of GetManagedObjects: nothing; the whole service; the service
\* of another device; one characteristic missing; the characteristics under
\* another service; a descriptor with the UUID of the TX characteristic.
ObjectSets ==
    {{},
     {GattService, RxChar, TxChar},
     {Obj(<<"hci0", "other", "service1">>, "GattService1", "svc")},
     {GattService, RxChar},
     {GattService, TxChar},
     {GattService,
      Obj(<<"hci0", "dev", "service2", "char1">>, "GattCharacteristic1", "rx"),
      Obj(<<"hci0", "dev", "service2", "char2">>, "GattCharacteristic1", "tx")},
     {GattService, RxChar,
      Obj(<<"hci0", "dev", "service1", "char2", "desc">>, "GattDescriptor1", "tx")}}

\* strings.HasPrefix(p, prefix + "/")
HasPrefix(p, prefix) == Len(p) > Len(prefix) /\ SubSeq(p, 1, Len(prefix)) = prefix

Services(out) ==
    {o \in out : HasPrefix(o.path, devicePath) /\ o.iface = "GattService1" /\ o.uuid = "svc"}

Chars(out, servicePath, uuid) ==
    {o \in out : /\ HasPrefix(o.path, servicePath)
                 /\ o.iface = "GattCharacteristic1"
                 /\ o.uuid = uuid}

\* Connect returns the error err.
DialFails(d, err) == [d EXCEPT !.pc = "done", !.err = err, !.client = NoClient]

\* An Object.Call of method, its result left aside.
Called(d, method) == [d EXCEPT !.calls = Append(@, method)]

\* obj.Call("org.bluez.Device1.Connect")
connectDevice(d, ok) ==
    IF ok THEN [Called(d, "Device1.Connect") EXCEPT !.pc = "loop"]
    ELSE DialFails(Called(d, "Device1.Connect"), <<"Connect">>)

\* One test of the loop condition and, before the deadline, one pass of the
\* loop: expired is time.Now() not before the deadline, got the outcome of
\* Properties.Get.  A pass takes a D-Bus call and a sleep of 100 ms: the
\* deadline may have passed after any pass, and has after MaxPolls.
pollResolved(d, expired, got) ==
    IF expired THEN [d EXCEPT !.pc = "managed"]
    ELSE IF d.cancelled
    THEN DialFails(Called(d, "Device1.Disconnect"), <<"context canceled">>)
    ELSE LET asked == Called(d, "Properties.Get")
         IN  IF got = "true"
             THEN [asked EXCEPT !.pc = "managed", !.resolved = TRUE]
             ELSE [asked EXCEPT !.polls = @ + 1]

\* The search of the reply out for the service sp and the characteristics
\* rx and tx; rx and tx are <<>> when no object has that UUID.
resolveGatt(d, out, sp, rx, tx) ==
    LET asked == [Called(d, "GetManagedObjects") EXCEPT !.out = out]
    IN  IF sp = <<>>
        THEN DialFails(Called(asked, "Device1.Disconnect"), <<"service not found">>)
        ELSE IF rx = <<>> \/ tx = <<>>
        THEN DialFails(Called(asked, "Device1.Disconnect"), <<"characteristics not found">>)
        ELSE [asked EXCEPT !.pc = "notify",
                           !.client = [writeCharPath |-> rx, notifyCharPath |-> tx]]

\* The paths that the two loops over out can end with: the map is ranged
\* over in any order, so any object with the UUID may be the one kept.
PathsOf(objs) == IF objs = {} THEN {<<>>} ELSE {o.path : o \in objs}

managedObjects(d, ok, out, sp, rx, tx) ==
    IF ~ok
    THEN DialFails(Called(Called(d, "GetManagedObjects"), "Device1.Disconnect"),
                   <<"GetManagedObjects">>)
    ELSE resolveGatt(d, out, sp, rx, tx)

\* StartNotify; on its error client.Close(), which is signalDisconnect and
\* Device1.Disconnect; else the two AddMatch calls and the signal goroutine.
startNotify(d, ok) ==
    LET asked == Called(d, "StartNotify")
    IN  IF ~ok
        THEN DialFails([Called(asked, "Device1.Disconnect") EXCEPT !.closed = TRUE],
                       <<"StartNotify">>)
        ELSE [Called(Called(asked, "AddMatch"), "AddMatch") EXCEPT !.pc = "done", !.matches = 2]

dialFrame ==
    <<sessionVars, discoveryVars, linkVars, hd, tornDown, timerVars, onceVars,
      harnessVars, transportVars, statusCh, dconn, caller, boot, dec>>

\* One statement of bluez.Connect.
Connect ==
    /\ dial.pc # "done"
    /\ \E ok \in BOOLEAN, got \in {"error", "false", "true"}, out \in ObjectSets :
       \E sp \in PathsOf(Services(out)) :
       \E rx \in PathsOf(Chars(out, sp, "rx")), tx \in PathsOf(Chars(out, sp, "tx")) :
          dial' = IF dial.pc = "connect" THEN connectDevice(dial, ok)
                  ELSE IF dial.pc = "loop"
                  THEN pollResolved(dial, (ok /\ dial.polls > 0) \/ dial.polls = MaxPolls, got)
                  ELSE IF dial.pc = "managed"
                  THEN managedObjects(dial, ok, out, sp, rx, tx)
                  ELSE startNotify(dial, ok)
    /\ UNCHANGED dialFrame

\* The caller's context is cancelled.
ctxCancel ==
    /\ dial.pc # "done"
    /\ ~dial.cancelled
    /\ dial' = [dial EXCEPT !.cancelled = TRUE]
    /\ UNCHANGED dialFrame

NextDial ==
    \/ Connect
    \/ ctxCancel

SpecDial == InitPeer /\ [][NextDial]_vars

(***************************************************************************)
(* dbus.decodeVariantValue on a wireReader.  buf is a sequence of bytes,   *)
(* pos counts from 0.  The encodings are those of the D-Bus wire format,   *)
(* little endian, as the bus writes them.                                  *)
(***************************************************************************)
Zeros(n) == [i \in 1..n |-> 0]

\* The padding that brings pos to a multiple of n.
Pad(pos, n) == (n - (pos % n)) % n

\* wireReader.align
Aligned(pos, n) == pos + Pad(pos, n)

LE16(v) == <<v % 256, v \div 256>>

\* The four bytes of the number whose halves are hi and lo.
LE32(hi, lo) == LE16(lo) \o LE16(hi)

\* The halves of 2^32 - m for the magnitude m = <<hi, lo>>, m > 0.
Negated(hi, lo) ==
    IF lo = 0 THEN <<(65536 - hi) % 65536, 0>> ELSE <<65535 - hi, 65536 - lo>>

\* A string with its length and its terminating NUL, written at pos.
EncString(bytes, pos) ==
    Zeros(Pad(pos, 4)) \o LE32(0, Len(bytes)) \o bytes \o <<0>>

RECURSIVE EncStrings(_, _)
EncStrings(strs, pos) ==
    IF strs = <<>> THEN <<>>
    ELSE LET first == EncString(Head(strs), pos)
         IN  first \o EncStrings(Tail(strs), pos + Len(first))

\* The encoding of value under the signature sig, written at pos.
Encoded(sig, value, pos) ==
    IF sig \in {<<"s">>, <<"o">>} THEN EncString(value.v, pos)
    ELSE IF sig = <<"b">> THEN Zeros(Pad(pos, 4)) \o LE32(0, IF value.v THEN 1 ELSE 0)
    ELSE IF sig = <<"y">> THEN <<value.v>>
    ELSE IF sig \in {<<"n">>, <<"q">>}
    THEN Zeros(Pad(pos, 2)) \o
         LE16(IF value.v[1] = 1 THEN 65536 - value.v[3] ELSE value.v[3])
    ELSE IF sig \in {<<"u">>, <<"i">>}
    THEN Zeros(Pad(pos, 4)) \o
         (IF value.v[1] = 1
          THEN LE32(Negated(value.v[2], value.v[3])[1], Negated(value.v[2], value.v[3])[2])
          ELSE LE32(value.v[2], value.v[3]))
    ELSE IF sig = <<"a", "y">>
    THEN Zeros(Pad(pos, 4)) \o LE32(0, Len(value.v)) \o value.v
    ELSE LET first == Aligned(pos, 4) + 4
             body  == EncStrings(value.v, first)
         IN  Zeros(Pad(pos, 4)) \o LE32(0, Len(body)) \o body

\* binary.LittleEndian.Uint16 and Uint32 of the bytes at pos.
Uint16At(buf, pos) == buf[pos + 1] + 256 * buf[pos + 2]

Uint32At(buf, pos) == <<0, Uint16At(buf, pos + 2), Uint16At(buf, pos)>>

\* int(v) of a uint32 that is a length.
IntOf(n) == 65536 * n[2] + n[3]

Slice(buf, from, to) == SubSeq(buf, from + 1, to)

Decoded(value, pos) == [value |-> value, pos |-> pos]

\* The loop of the branch for an array of strings.
RECURSIVE readStrings(_, _, _, _)
readStrings(buf, pos, end, out) ==
    IF pos < end /\ (IF pos > Len(buf) THEN 0 ELSE Len(buf) - pos) >= 4
    THEN LET at  == Aligned(pos, 4)
             sln == IntOf(Uint32At(buf, at))
         IN  readStrings(buf, at + 4 + sln + 1, end,
                         Append(out, Slice(buf, at + 4, at + 4 + sln)))
    ELSE Decoded(Val("strings", out), pos)

\* decodeVariantValue(r, sig) with r.buf = buf and r.pos = pos: the value
\* returned and r.pos afterwards.
decodeVariantValue(buf, pos, sig) ==
    IF Len(sig) = 0 THEN Decoded(NilValue, pos)
    ELSE IF sig[1] \in {"s", "o"}
    THEN LET at == Aligned(pos, 4)
             ln == IntOf(Uint32At(buf, at))
         IN  Decoded(Val("string", Slice(buf, at + 4, at + 4 + ln)), at + 4 + ln + 1)
    ELSE IF sig[1] = "b"
    THEN LET at == Aligned(pos, 4)
         IN  Decoded(Val("bool", Uint32At(buf, at) = <<0, 0, 1>>), at + 4)
    ELSE IF sig[1] = "y"
    THEN Decoded(Val("byte", buf[pos + 1]), pos + 1)
    ELSE IF sig[1] \in {"q", "n"}
    THEN LET at == Aligned(pos, 2)
         IN  Decoded(Val("number", <<0, 0, Uint16At(buf, at)>>), at + 2)
    ELSE IF sig[1] \in {"u", "i"}
    THEN LET at == Aligned(pos, 4)
         IN  Decoded(Val("number", Uint32At(buf, at)), at + 4)
    ELSE IF sig[1] = "a"
    THEN IF Len(sig) > 1 /\ sig[2] = "y"
         THEN LET at == Aligned(pos, 4)
                  ln == IntOf(Uint32At(buf, at))
              IN  Decoded(Val("bytes", Slice(buf, at + 4, at + 4 + ln)), at + 4 + ln)
         ELSE IF Len(sig) > 2 /\ sig[2] = "s" /\ sig[3] = "}"
         THEN LET at == Aligned(pos, 4)
                  ln == IntOf(Uint32At(buf, at))
              IN  readStrings(buf, at + 4, at + 4 + ln, <<>>)
         ELSE LET at == Aligned(pos, 4)
                  ln == IntOf(Uint32At(buf, at))
              IN  Decoded(NilValue, Aligned(at + 4, 8) + ln)
    ELSE Decoded(NilValue, pos)

\* The values that the bus sends under each signature.
DecodeCases ==
    {<<<<"s">>, Val("string", <<104, 105>>)>>,
     <<<<"s">>, Val("string", <<>>)>>,
     <<<<"o">>, Val("string", <<47, 111>>)>>,
     <<<<"b">>, Val("bool", TRUE)>>,
     <<<<"b">>, Val("bool", FALSE)>>,
     <<<<"y">>, Val("byte", 200)>>,
     <<<<"n">>, Val("number", <<0, 0, 5>>)>>,
     <<<<"n">>, Val("number", <<1, 0, 2>>)>>,
     <<<<"q">>, Val("number", <<0, 0, 65534>>)>>,
     <<<<"u">>, Val("number", <<0, 1, 4464>>)>>,
     <<<<"u">>, Val("number", <<0, 65535, 65535>>)>>,
     <<<<"i">>, Val("number", <<0, 0, 5>>)>>,
     <<<<"i">>, Val("number", <<1, 0, 1>>)>>,
     <<<<"a", "y">>, Val("bytes", <<1, 2, 3>>)>>,
     <<<<"a", "y">>, Val("bytes", <<>>)>>,
     <<<<"a", "s">>, Val("strings", <<>>)>>,
     <<<<"a", "s">>, Val("strings", <<<<97>>, <<98, 99>>>>)>>}

\* The positions of the reader at which the value begins, and the bytes
\* that follow the value in the buffer.
Offsets == 0..7

Trailer == <<170, 187>>

decFrame ==
    <<sessionVars, discoveryVars, linkVars, hd, tornDown, timerVars, onceVars,
      harnessVars, transportVars, statusCh, dconn, caller, boot, dial>>

\* A variant arrives: its signature has been read, the reader stands at the
\* value.
variantArrives ==
    /\ dec.pc # "read"
    /\ \E c \in DecodeCases, at \in Offsets :
          dec' = [pc |-> "read", sig |-> c[1], value |-> c[2], at |-> at,
                  buf |-> Zeros(at) \o Encoded(c[1], c[2], at) \o Trailer,
                  got |-> NilValue, pos |-> at]
    /\ UNCHANGED decFrame

\* val := decodeVariantValue(r, sig)
decodeVariant ==
    /\ dec.pc = "read"
    /\ LET res == decodeVariantValue(dec.buf, dec.pos, dec.sig)
       IN  dec' = [dec EXCEPT !.pc = "decoded", !.got = res.value, !.pos = res.pos]
    /\ UNCHANGED decFrame

NextDecode ==
    \/ variantArrives
    \/ decodeVariant

SpecDecode == InitPeer /\ [][NextDecode]_vars

(***************************************************************************)
(* Harness: one Transport handed arbitrary DATA packets and packets that   *)
(* are shorter than the header, while time passes.                         *)
(***************************************************************************)
ShortPackets == {<<>>, <<packetData>>, <<packetData, 1, 1>>, <<packetAck, 1, 1>>}

RxShort ==
    /\ fedCount < MaxRx
    /\ link["A"] = <<>>
    /\ fedCount' = fedCount + 1
    /\ \E pkt \in ShortPackets : OnReceivePacket("B", pkt, link)
    /\ UNCHANGED <<sessionVars, discoveryVars, linkVars, tornDown, componentVars, pool, subject, discarded, storedAt, locks, acking, nextSeq, pendingAcks,
                   statusCh, now, snd, returned, taken>>

NextRxShort ==
    \/ RxData
    \/ RxShort
    \/ RxAckGone
    \/ Tick

SpecRxShort == InitRx /\ [][NextRxShort]_vars

(***************************************************************************)
(* Harness: one Transport handed arbitrary DATA packets whose ACKs stay in *)
(* flight, so that the Link towards the sender lists the packets handled.  *)
(***************************************************************************)
RxLogged ==
    /\ fedCount < MaxRx
    /\ fedCount' = fedCount + 1
    /\ \E pkt \in FuzzPackets : OnReceivePacket("B", pkt, link)
    /\ UNCHANGED <<sessionVars, discoveryVars, linkVars, tornDown, componentVars, pool, subject, discarded, storedAt, locks, acking, nextSeq, pendingAcks,
                   statusCh, now, snd, returned, taken>>

NextRxLog ==
    \/ RxLogged
    \/ SessionEvent
    \/ Tick

SpecRxLog == InitRx /\ [][NextRxLog]_vars

(***************************************************************************)
(* Harness: as above, and storedAt records when the fragment of a packet   *)
(* was stored in a buffer.                                                 *)
(***************************************************************************)
TimedPackets ==
    {<<packetData, seq, sh[1], sh[2], Code(sh[1], sh[2], 0)>> : seq \in FuzzSeqs, sh \in Shapes}

\* acceptData stores the fragment of pkt: total and idx are valid and the
\* slot of the buffer it finds or makes is empty.
Stores(rx, t, pkt) ==
    /\ pkt[3] # 0
    /\ pkt[4] < pkt[3]
    /\ LET reaped == Reap(rx, t)
       IN  ~(/\ pkt[2] \in DOMAIN reaped
             /\ reaped[pkt[2]].total = pkt[3]
             /\ reaped[pkt[2]].fragments[pkt[4]] # Nil)

RxTimed ==
    /\ fedCount < MaxRx
    /\ fedCount' = fedCount + 1
    /\ \E pkt \in TimedPackets :
          /\ OnReceivePacket("B", pkt, link)
          /\ storedAt' = IF Stores(reassembly["B"], now, pkt)
                         THEN [storedAt EXCEPT ![pkt[2]] = now]
                         ELSE storedAt
    /\ UNCHANGED <<sessionVars, discoveryVars, linkVars, tornDown, componentVars, pool, subject,
                   discarded, acking, locks, nextSeq, pendingAcks, statusCh, now, snd, returned, taken>>

NextRxAge ==
    \/ RxTimed
    \/ SessionEvent
    \/ Tick

SpecRxAge == InitRx /\ [][NextRxAge]_vars

(***************************************************************************)
(* Harness: one Transport handed arbitrary DATA packets while the writes   *)
(* of its peer start to fail and handleDisconnect ends the session.        *)
(***************************************************************************)
NextRxFail ==
    \/ RxData
    \/ RxAckGone
    \/ linkFails("B")
    \/ handleDisconnect("B")

SpecRxFail == InitRx /\ [][NextRxFail]_vars

(***************************************************************************)
(* The receive path of peer A step by step: signalAck reads the channel    *)
(* of the key under ackMu, unlocks, and then sends on the channel it read. *)
(* Session events and the sender of A run in between.  A send on a closed  *)
(* channel panics, and the process ends.                                   *)
(***************************************************************************)
\* signalAck up to ackMu.Unlock, for the ACK packet that heads the Link.
signalAckLookup(p) ==
    /\ acking[p].pc = "idle"
    /\ link[p] # <<>>
    /\ IsAck(Head(link[p]))
    /\ link' = [link EXCEPT ![p] = Tail(@)]
    /\ acking' = [acking EXCEPT ![p] =
                  IF Unregistered(p, Head(link[p]))
                  THEN IdleSig
                  ELSE [pc |-> "send", closed |-> FALSE, current |-> TRUE]]
    /\ UNCHANGED <<peerVars, componentVars, pool, subject, fedCount, discarded, storedAt, locks,
                   nextSeq, pendingAcks, ackCh, reassembly, recvCh, statusCh, now, snd,
                   returned, taken>>

\* The select of signalAck: a send on the channel it holds, or default.
signalAckSend(p) ==
    /\ acking[p].pc = "send"
    /\ IF acking[p].closed
       THEN /\ acking' = [acking EXCEPT ![p].pc = "panic"]
            /\ UNCHANGED ackCh
       ELSE /\ acking' = [acking EXCEPT ![p] = IdleSig]
            /\ ackCh' = [ackCh EXCEPT ![p] =
                            IF acking[p].current /\ @.buf = 0 THEN [@ EXCEPT !.buf = 1] ELSE @]
    /\ UNCHANGED <<peerVars, componentVars, pool, subject, fedCount, discarded, storedAt, locks,
                   nextSeq, pendingAcks, reassembly, recvCh, statusCh, link, now, snd,
                   returned, taken>>

\* OnConnected or OnDisconnected of p while signalAck may hold a channel:
\* the channel it holds is closed when it still is in pendingAcks.
sessionEventRacing(p) ==
    /\ fedCount < MaxRemote
    /\ fedCount' = fedCount + 1
    /\ OnConnected(p)
    /\ acking' = [acking EXCEPT ![p].closed =
                  @ \/ (acking[p].pc = "send" /\ acking[p].current /\ pendingAcks[p] # {})]
    /\ UNCHANGED <<peerVars, componentVars, pool, subject, discarded, storedAt, locks, nextSeq,
                   recvCh, statusCh, link, now, snd, returned, taken>>

\* registerAck of p while signalAck may hold the channel made before.
registerAckRacing(p) ==
    /\ snd[p].pc = "register"
    /\ pendingAcks' = [pendingAcks EXCEPT ![p] = @ \cup {Key(snd[p])}]
    /\ ackCh' = [ackCh EXCEPT ![p] = OpenChan]
    /\ snd' = [snd EXCEPT ![p].pc = "write", ![p].tries = 0, ![p].sent = FALSE]
    /\ acking' = [acking EXCEPT ![p].current = FALSE]
    /\ UNCHANGED <<peerVars, componentVars, pool, subject, fedCount, discarded, storedAt, locks,
                   nextSeq, reassembly, recvCh, statusCh, link, now, returned, taken>>

Panicked == \E p \in Peers : acking[p].pc = "panic"

NextRace ==
    /\ ~Panicked
    /\ \/ SendTwo
       \/ registerAckRacing("A")
       \/ sendAttempt("A")
       \/ ackReceived("A")
       \/ ackClosed("A")
       \/ ackTimeoutLate("A")
       \/ unregisterAck("A")
       \/ Deliver("B")
       \/ signalAckLookup("A")
       \/ signalAckSend("A")
       \/ sessionEventRacing("A")

SpecRace == InitWriter /\ [][NextRace]_vars

(***************************************************************************)
(* Peer A from NewPeer on, its session install step by step, and its       *)
(* writer.  setConnectedAsCentral holds Peer.mu from its first statement   *)
(* to the return of OnConnected: disc is "drain" after connected.Store and *)
(* before OnConnected.  The Link loses nothing and no session ends.        *)
(***************************************************************************)
\* setConnectedAsCentral up to connected.Store(true).
installStore(p) ==
    /\ disc[p] = "install"
    /\ centralClient' = [centralClient EXCEPT ![p] = session[p] + 1]
    /\ isCentral' = [isCentral EXCEPT ![p] = TRUE]
    /\ connected' = [connected EXCEPT ![p] = TRUE]
    /\ disc' = [disc EXCEPT ![p] = "drain"]
    /\ UNCHANGED <<pIncoming, watching, session, cycles, linkVars, hd, componentVars,
                   harnessVars, nextSeq, pendingAcks, ackCh, reassembly, recvCh, statusCh,
                   link, now, snd, returned, taken, tornDown>>

\* transport.OnConnected, the unlock, and the status line of
\* connectAndSubscribePlatform.
installDrain(p) ==
    /\ disc[p] = "drain"
    /\ OnConnected(p)
    /\ statusCh' = publishStatus(statusCh, p, <<"Connected as Central to">>)
    /\ session' = [session EXCEPT ![p] = @ + 1]
    /\ disc' = [disc EXCEPT ![p] = "top"]
    /\ UNCHANGED <<sessionVars, pIncoming, watching, cycles, linkVars, hd, componentVars,
                   harnessVars, nextSeq, recvCh, link, now, snd, returned, taken, tornDown>>

\* Peer.mu is held by setConnectedAsCentral.
Installing(p) == disc[p] = "drain"

NextInstall ==
    \/ discTop("A")
    \/ discAdvTimeout("A")
    \/ discRecheck("A")
    \/ discScanNone("A")
    \/ discScanFound("A")
    \/ discConnectFails("A")
    \/ discConnect("A")
    \/ installStore("A")
    \/ installDrain("A")
    \/ SendPeer
    \/ registerAck("A")
    \/ (~Installing("A") /\ sendAttempt("A"))
    \/ ackReceived("A")
    \/ ackClosed("A")
    \/ unregisterAck("A")
    \/ Receive

SpecInstall == InitPeer /\ [][NextInstall]_vars

(***************************************************************************)
(* The sender of peer A on a slow Link, with the message counter at 0 or   *)
(* at 255: message k has the two-fragment text MkText(payloadSize + 1, k). *)
(***************************************************************************)
TwoFragmentText(k) == MkText(payloadSize + 1, k)

SendTwoFragments == writeLoop("A", TwoFragmentText(taken["A"]))

NextMix ==
    \/ SendTwoFragments
    \/ Sender
    \/ ackTimeoutLate("A")
    \/ Receive

SpecMix == Init /\ [][NextMix]_vars

(***************************************************************************)
(* The mutexes of a Peer and its Transport.  Each goroutine runs one call  *)
(* at a time; a call is the sequence of Lock and Unlock operations its     *)
(* code performs, in program order.  Lock blocks while the mutex is held.  *)
(***************************************************************************)
Lk(m) == <<"Lock", m>>

Ul(m) == <<"Unlock", m>>

RECURSIVE Times(_, _)
Times(ops, n) == IF n = 0 THEN <<>> ELSE ops \o Times(ops, n - 1)

\* registerAck, unregisterAck and signalAck: ackMu around the map access.
registerAckLocks == <<Lk("ackMu"), Ul("ackMu")>>

unregisterAckLocks == <<Lk("ackMu"), Ul("ackMu")>>

signalAckLocks == <<Lk("ackMu"), Ul("ackMu")>>

\* acceptData: rxMu from after the bounds test to the return.
acceptDataLocks == <<Lk("rxMu"), Ul("rxMu")>>

\* OnConnected and OnDisconnected: ackMu, released, then rxMu.
OnConnectedLocks == <<Lk("ackMu"), Ul("ackMu"), Lk("rxMu"), Ul("rxMu")>>

\* writeRaw: mu for the whole call; the write itself takes no mutex, and a
\* failed write starts handleDisconnect in a goroutine of its own.
writeRawLocks == <<Lk("mu"), Ul("mu")>>

\* SendMessage with a single fragment that is written k times: the entry is
\* registered, each attempt calls writeRaw, the entry is unregistered.
SendMessageHoldingAck(k) ==
    <<Lk("ackMu")>> \o Times(writeRawLocks, k) \o <<Ul("ackMu")>>

SendMessageLocks(k) ==
    registerAckLocks \o Times(writeRawLocks, k) \o unregisterAckLocks

\* OnReceivePacket: an ACK goes to signalAck; a DATA packet is acknowledged
\* with writeRaw and then handed to acceptData.
OnReceivePacketLocks ==
    {signalAckLocks, writeRawLocks \o acceptDataLocks, writeRawLocks}

\* setConnectedAsCentral and setConnectedAsPeripheral: OnConnected runs
\* inside mu (the Unlock is deferred).
setConnectedLocks == <<Lk("mu")>> \o OnConnectedLocks \o <<Ul("mu")>>

\* handleDisconnect after a successful Swap: peripheralNotifierMu inside mu,
\* then OnDisconnected with no mutex of the Peer held.
handleDisconnectLocks ==
    <<Lk("mu"), Lk("peripheralNotifierMu"), Ul("peripheralNotifierMu"),
      Ul("mu")>> \o OnConnectedLocks

LockCalls(t) ==
    CASE t = "writeLoop" -> {SendMessageLocks(k) : k \in 1..maxRetries}
      [] t = "notify" -> OnReceivePacketLocks
      [] t = "discoveryLoop" -> {setConnectedLocks}
      [] OTHER -> {handleDisconnectLocks}

lockFrame ==
    <<connected, isCentral, centralClient, nextSeq, pendingAcks, ackCh,
      reassembly, recvCh, statusCh, link, now, snd, returned, taken, pool,
      subject, fedCount, discarded, storedAt, acking, disc, pIncoming, hd,
      watching, disconnected, alive, inbound, session, cycles, tornDown,
      wall, deadline, clockSkew, once, closes, closing, dconn, caller, boot,
      dial, dec>>

\* A goroutine enters one of its calls.
Enter(t) ==
    /\ locks.prog[t] = <<>>
    /\ \E ops \in LockCalls(t) :
           locks' = [locks EXCEPT !.prog[t] = ops]
    /\ UNCHANGED lockFrame

\* sync.Mutex.Lock: proceeds only while nobody holds the mutex.
Lock(t) ==
    /\ locks.prog[t] # <<>>
    /\ Head(locks.prog[t])[1] = "Lock"
    /\ locks.held[Head(locks.prog[t])[2]] = "none"
    /\ locks' = [locks EXCEPT !.held[Head(locks.prog[t])[2]] = t,
                              !.prog[t] = Tail(@)]
    /\ UNCHANGED lockFrame

\* sync.Mutex.Unlock.
Unlock(t) ==
    /\ locks.prog[t] # <<>>
    /\ Head(locks.prog[t])[1] = "Unlock"
    /\ locks' = [locks EXCEPT !.held[Head(locks.prog[t])[2]] = "none",
                              !.prog[t] = Tail(@)]
    /\ UNCHANGED lockFrame

NextLocks == \E t \in Tasks : Enter(t) \/ Lock(t) \/ Unlock(t)

SpecLocks == InitPeer /\ [][NextLocks]_vars

(***************************************************************************)
(* Session installation, handleDisconnect and the writes of the receive    *)
(* path (the ACK that answers a DATA packet), interleaved on one Peer.     *)
(***************************************************************************)
NextSession ==
    \/ NextPeer
    \/ remoteData("A")
    \/ Receive

SpecSession == InitPeer /\ [][NextSession]_vars

(***************************************************************************)
(* Properties of the transport                                             *)
(***************************************************************************)
Occ(q, x) == Cardinality({i \in 1..Len(q) : q[i] = x})

\* The calls of SendMessage with text m made so far by p.
Calls(p, m) ==
    Cardinality({i \in 1..Len(returned[p]) : returned[p][i].text = m})
       + (IF snd[p].pc # "idle" /\ snd[p].data = m THEN 1 ELSE 0)

\* The calls of SendMessage with text m that have returned nil.
Successes(p, m) ==
    Cardinality({i \in 1..Len(returned[p]) :
                    returned[p][i].text = m /\ returned[p][i].err = NoError})

\* Every call that has returned for a text of 1 to 4080 bytes returned nil,
\* and the text is on the other peer's recv once for each such call.
C1_Delivered ==
    \A i \in 1..Len(returned["A"]) :
       LET m == returned["A"][i].text
       IN  (Len(m) >= 1 /\ Len(m) <= maxBytes)
              => /\ returned["A"][i].err = NoError
                 /\ Occ(recvCh["B"], m) >= Successes("A", m)
                 /\ Occ(recvCh["B"], m) <= Calls("A", m)

\* C1: over the loopback Link every SendMessage(M) with 1 <= |M| <= 4080
\* eventually returns, it returns nil, and M is then on the recv channel of
\* the other peer.
C1_LoopbackDelivers ==
    /\ [](C1_Delivered)
    /\ (snd["A"].pc # "idle") ~> (snd["A"].pc = "idle")

C1_Witness ==
    \E i \in 1..Len(returned["A"]) :
       /\ Len(returned["A"][i].text) = payloadSize + 1
       /\ returned["A"][i].err = NoError
       /\ Occ(recvCh["B"], returned["A"][i].text) >= 1

\* C2: a message is published on the receiver's recv channel at most once for
\* each call of SendMessage, also when an ACK is lost and the sender
\* retransmits the fragment that completed the message.
C2_PublishedOncePerSend == \A m \in Texts : Occ(recvCh["B"], m) <= Calls("A", m)

\* C3: once every fragment of the text has been handed to acceptData, in
\* whatever order, recv holds the text and nothing else; before that recv is
\* empty.
C3_AnyOrderPublishesText ==
    IF pool = {} THEN recvCh["B"] = <<subject.text>> ELSE recvCh["B"] = <<>>

C3_Witness ==
    /\ pool = {}
    /\ subject.reordered
    /\ TotalOf(subject.text) >= 3
    /\ subject.seq = 255
    /\ recvCh["B"] = <<subject.text>>

\* A string made of the payloads of exactly `total` packets that all carry
\* that total, one for each idx and in the order of idx.
WholeString(str) ==
    /\ Len(str) >= 1
    /\ LET total == str[1] \div 16
       IN  /\ Len(str) = total
           /\ \A j \in 1..Len(str) : str[j] \div 16 = total /\ (str[j] % 16) \div 2 = j - 1

\* C4: whatever DATA packets and session events come, every string on recv
\* was built from a buffer with all of its `total` slots filled.
C4_OnlyWholeMessages ==
    \A i \in 1..Len(recvCh["B"]) : WholeString(recvCh["B"][i])

C4_Witness ==
    /\ \E i \in 1..Len(recvCh["B"]) : Len(recvCh["B"][i]) = 2
    /\ \E s \in DOMAIN reassembly["B"] : ~Complete(reassembly["B"][s])

\* C5: over a Link that loses DATA frames and never an ACK, a SendMessage
\* that returns nil has had its message published on the other peer's recv.
C5_SuccessMeansPublished ==
    \A m \in LossyTexts : Occ(recvCh["B"], m) >= Successes("A", m)

\* C6: a step of SendMessage that returns "message too large" writes no
\* packet, registers no pending ACK and does not consume a seq; and a text
\* of more than 4080 bytes is never sent.
C6_TooLargeWritesNothing ==
    [][ /\ (Len(returned'["A"]) > Len(returned["A"])
              /\ Len(returned'["A"][Len(returned'["A"])].text) > maxBytes)
           => /\ returned'["A"][Len(returned'["A"])].err = <<"message too large">>
              /\ snd["A"].pc = "idle"
              /\ link' = link
              /\ pendingAcks' = pendingAcks
              /\ nextSeq' = nextSeq
        /\ Len(snd'["A"].data) <= maxBytes ]_vars

C6_Witness ==
    \E i \in 1..Len(returned["A"]) :
       /\ Len(returned["A"][i].text) = maxBytes + 1
       /\ returned["A"][i].err = <<"message too large">>
       /\ link = [p \in Peers |-> <<>>]

(***************************************************************************)
(* Properties of the Peer                                                  *)
(***************************************************************************)
\* C7: when writeLoop takes a message while connected is false, it puts
\* "Message ignored: not connected" on status and is ready for the next
\* message at once; SendMessage is not called: no seq is consumed, no
\* pending ACK is registered, no packet is written, nothing is returned.
C7_IgnoredWhenNotConnected ==
    [][ (taken'["A"] # taken["A"] /\ ~connected["A"])
           => /\ statusCh'["A"] = Append(statusCh["A"], <<"Message ignored: not connected">>)
              /\ snd'["A"] = IdleSnd
              /\ nextSeq' = nextSeq
              /\ pendingAcks' = pendingAcks
              /\ link' = link
              /\ returned' = returned ]_vars

C7_Witness ==
    /\ ~connected["A"]
    /\ taken["A"] = 2
    /\ Len(returned["A"]) = 1
    /\ Occ(statusCh["A"], <<"Message ignored: not connected">>) = 1

\* C8: connected becomes true only in a step of the discovery loop that
\* installs a session, and a session is installed only while connected is
\* false, that is when no session is active.
C8_InstalledByDiscoveryOnly ==
    [][ /\ (connected'["A"] /\ ~connected["A"])
           => /\ disc["A"] \in {"advertise", "install"}
              /\ disc'["A"] = "top"
              /\ session'["A"] = session["A"] + 1
        /\ (session'["A"] # session["A"])
           => /\ ~connected["A"]
              /\ connected'["A"]
        /\ (isCentral'["A"] /\ ~isCentral["A"]) => session'["A"] # session["A"] ]_vars

C8_Witness ==
    /\ session["A"] = 2
    /\ connected["A"]
    /\ isCentral["A"]
    /\ 1 \in tornDown["A"]

\* The steps of handleDisconnect that tear the session down.
TeardownPcs == {"lock", "close", "onDisc"}

\* C9: a call of handleDisconnect that ended session k does its teardown
\* (the section under the lock, client.Close, OnDisconnected) before session
\* k+1 is installed.
C9_TeardownBeforeInstall ==
    \A h \in Slots :
       hd["A"][h].pc \in TeardownPcs => hd["A"][h].sess = session["A"]

C10_Event(k) ==
    /\ session["A"] = k
    /\ connected["A"]
    /\ \/ /\ isCentral["A"]
          /\ centralClient["A"] \in disconnected["A"] \cap watching["A"]
       \/ \E h \in Slots : hd["A"][h].pc = "swap"

C10_Done(k) ==
    /\ k \in tornDown["A"]
    /\ \/ session["A"] > k
       \/ ~connected["A"] /\ disc["A"] \in {"advertise", "recheck", "scan", "connect", "install"}

WriteFailures ==
    {<<"Disconnected: write failed">>, <<"Disconnected: peripheral notify failed">>}

\* A step in which peer A calls writeRaw: an attempt of SendMessage, or the
\* ACK of a DATA packet (the step takes the packet from the Link and stores
\* or publishes it).
WritesRaw ==
    \/ snd["A"].pc = "write" /\ snd'["A"] # snd["A"]
    \/ /\ link["A"] # <<>>
       /\ Head(link["A"])[1] = packetData
       /\ link'["A"] = Tail(link["A"])
       /\ recvCh'["A"] # recvCh["A"] \/ reassembly'["A"] # reassembly["A"]

FailureSpawns ==
    (WritesRaw /\ connected["A"] /\ ~WriteOK("A"))
       => \E h \in Slots :
             /\ hd["A"][h].pc = "free"
             /\ hd'["A"][h].pc = "swap"
             /\ hd'["A"][h].reason \in WriteFailures

FailurePending ==
    \E h \in Slots : hd["A"][h].pc = "swap" /\ hd["A"][h].reason \in WriteFailures

SessionTornDown ==
    /\ ~connected["A"]
    /\ centralClient["A"] = 0
    /\ ~isCentral["A"]
    /\ \A h \in Slots : hd["A"][h].pc = "free"

BlockedAtEnd(k) == dconn.reader = "done" /\ caller[k].serial \in dconn.atEnd

\* C14: once readLoop has ended on a failed read, a clean EOF included,
\* every caller that was blocked in waitReply has a value on its channel or
\* has returned, what it returned has a reply or an error, and the signal
\* channel is closed.
C14_ReaderEndWakesWithError ==
    dconn.reader = "done" =>
       /\ dconn.sigClosed
       /\ \A k \in Callers :
             BlockedAtEnd(k) =>
                /\ caller[k].pc = "wait" => caller[k].ch # <<"empty">>
                /\ caller[k].pc # "nil dereference"
                /\ caller[k].pc = "done" =>
                      (caller[k].reply # <<"nil">> \/ caller[k].err # <<"nil">>)

(***************************************************************************)
(* Properties of the acknowledgements                                      *)
(***************************************************************************)
\* The step hands an ACK packet to OnReceivePacket of peer A.
AckStep == link["A"] # <<>> /\ link'["A"] = Tail(link["A"]) /\ IsAck(Head(link["A"]))

\* Nothing of the Transport changes, and the sender is where it was.
AckDiscarded ==
    UNCHANGED <<pendingAcks, ackCh, reassembly, recvCh, snd, returned, statusCh, nextSeq>>

\* The ACK packet of the step is for another fragment than the one that
\* SendMessage is sending.
ForAnotherFragment ==
    \/ snd["A"].pc = "idle"
    \/ <<Head(link["A"])[2], Head(link["A"])[4]>> # Key(snd["A"])

\* A value is on the channel of the fragment being sent only if the
\* receiver has got that fragment (every message here has one fragment, so
\* the receiver has published its text).
LateAckNotCounted ==
    (snd["A"].pc \in {"write", "wait"} /\ ackCh["A"].buf = 1)
       => \E n \in DOMAIN recvCh["B"] : recvCh["B"][n] = snd["A"].data

\* C15: an ACK packet whose key has no registered channel changes neither
\* the pendingAcks map, nor any channel, nor the reassembly map, nor recvCh,
\* and the sender does not move; so does an ACK of a fragment other than
\* the one being sent; and an ACK that arrives late is not counted for a
\* fragment that the receiver has not got.
C15_UnregisteredAckDiscarded ==
    /\ [][AckStep /\ (Unregistered("A", Head(link["A"])) \/ ForAnotherFragment)
             => AckDiscarded]_vars
    /\ []LateAckNotCounted

(***************************************************************************)
(* Properties of the retry loop                                            *)
(***************************************************************************)
TimedOut(e) == e.err[1] = "delivery timeout"

\* The attempts made for the fragment being sent, the one in progress included.
Attempts(s) == s.tries + (IF s.pc \in {"write", "wait"} THEN 1 ELSE 0)

\* No fragment after the one that timed out is in flight or stored.
NothingAfter(seq, idx) ==
    /\ \A j \in DOMAIN link["B"] :
          ~(link["B"][j][1] = packetData /\ link["B"][j][2] = seq /\ link["B"][j][4] > idx)
    /\ seq \in DOMAIN reassembly["B"] =>
          \A k \in DOMAIN reassembly["B"][seq].fragments :
             k > idx => reassembly["B"][seq].fragments[k] = Nil

RetriesBounded ==
    /\ Attempts(snd["A"]) <= maxRetries
    /\ \A n \in DOMAIN returned["A"] :
          TimedOut(returned["A"][n]) =>
             NothingAfter(returned["A"][n].err[2], returned["A"][n].err[3])

\* The step in which SendMessage leaves the retry loop of an unacknowledged
\* fragment, and the step in which it returns a delivery timeout.
ExhaustionReturns ==
    /\ (snd["A"].pc = "unregister" /\ ~snd["A"].sent /\ snd'["A"] # snd["A"])
          => /\ snd["A"].tries = maxRetries
             /\ returned'["A"] = Append(returned["A"],
                    [text |-> snd["A"].data,
                     err |-> <<"delivery timeout", snd["A"].seq, snd["A"].i>>])
             /\ Key(snd["A"]) \notin pendingAcks'["A"]
             /\ snd'["A"] = IdleSnd
             /\ link' = link
    /\ (Len(returned'["A"]) > Len(returned["A"])
           /\ TimedOut(returned'["A"][Len(returned'["A"])]))
          => snd["A"].pc = "unregister" /\ ~snd["A"].sent

\* C16: no fragment is attempted more than maxRetries times, failed writes
\* counted; when the attempts are used up with no ACK, SendMessage removes
\* the key from pendingAcks and returns the delivery timeout of that seq and
\* fragment, and no later fragment of the message is ever written.
C16_AtMostMaxRetries == []RetriesBounded /\ [][ExhaustionReturns]_vars

\* SendMessage has returned the delivery timeout of fragment 1 of message 1,
\* after writes that failed.
C16_Witness ==
    /\ \E n \in DOMAIN returned["A"] : returned["A"][n].err = <<"delivery timeout", 1, 1>>
    /\ pendingAcks["A"] = {}
    /\ ~WriteOK("A")

(***************************************************************************)
(* Properties of stop-and-wait                                             *)
(***************************************************************************)
\* SendMessage goes on to the next fragment only with sent true; sent
\* becomes true only by a receive from the channel; a value comes on the
\* channel only from an ACK packet with the key of the fragment being sent;
\* and the DATA packet written is that of the fragment being sent.
StopAndWaitStep ==
    /\ (snd["A"].pc = "unregister" /\ snd'["A"].pc = "register")
          => snd["A"].sent /\ snd'["A"].i = snd["A"].i + 1 /\ snd'["A"].seq = snd["A"].seq
    /\ (snd'["A"].sent /\ ~snd["A"].sent)
          => snd["A"].pc = "wait" /\ ackCh["A"].buf = 1 /\ ackCh'["A"].buf = 0
    /\ (ackCh'["A"].buf = 1 /\ ackCh["A"].buf = 0)
          => /\ AckStep
             /\ <<Head(link["A"])[2], Head(link["A"])[4]>> = Key(snd["A"])
             /\ Key(snd["A"]) \in pendingAcks["A"]
    /\ Len(link'["B"]) > Len(link["B"])
          => /\ snd["A"].pc = "write"
             /\ link'["B"] = Append(link["B"],
                    Packet(snd["A"].data, snd["A"].seq, snd["A"].total, snd["A"].i))

\* At most one key is registered: that of the fragment being sent.
OneOutstanding ==
    /\ Cardinality(pendingAcks["A"]) <= 1
    /\ snd["A"].pc \in {"idle", "register"} => pendingAcks["A"] = {}
    /\ snd["A"].pc \in {"write", "wait", "unregister"} => pendingAcks["A"] \subseteq {Key(snd["A"])}

\* C17: fragment i + 1 is written only when an ACK with the key of fragment
\* i has been received on its channel, and pendingAcks never holds more
\* than one key.
C17_StopAndWait == []OneOutstanding /\ [][StopAndWaitStep]_vars

\* Fragment 1 has been written and is the only key registered; no stray ACK
\* has arrived, and a late ACK of fragment 0 has been discarded.
C17_Witness ==
    /\ snd["A"].pc = "wait"
    /\ snd["A"].i = 1
    /\ pendingAcks["A"] = {<<snd["A"].seq, 1>>}
    /\ fedCount = 0
    /\ discarded["A"] > 0
    /\ \E j \in DOMAIN link["B"] : link["B"][j][4] = 1

(***************************************************************************)
(* Properties of the ACK channel                                           *)
(***************************************************************************)
Range(q) == {q[i] : i \in DOMAIN q}

\* The fragments that the sender has taken for acknowledged: every message
\* here has one fragment.
TakenForAcked ==
    Cardinality({n \in DOMAIN returned["A"] : returned["A"][n].err = NoError})
       + (IF snd["A"].sent THEN 1 ELSE 0)

\* The channel holds at most one value, and the sender has taken no more
\* fragments for acknowledged than the receiver has got.
AcksCountOnce ==
    /\ ackCh["A"].buf <= 1
    /\ TakenForAcked <= Cardinality(Range(recvCh["B"]))

\* signalAck returns in the step: the frame leaves the Link whatever the
\* state of the channel.
AckNeverBlocks ==
    \A p \in Peers :
       (link[p] # <<>> /\ IsAck(Head(link[p]))) => ENABLED Deliver(p)

\* C18: an ACK packet is always processed at once; a fragment is taken for
\* acknowledged once, and only if the receiver has got it: the ACKs that
\* follow the first one for a key acknowledge no later fragment.
C18_OneWakePerRegistration == AckNeverBlocks /\ AcksCountOnce

(***************************************************************************)
(* Properties of the session events of the Transport                       *)
(***************************************************************************)
\* The Transport of peer A after one session event, and after a second one
\* that follows at once.
AfterEvent == Drained(pendingAcks["A"], ackCh["A"], reassembly["A"])

AfterSecondEvent == Drained(AfterEvent.pendingAcks, AfterEvent.ackCh, AfterEvent.reassembly)

EventDrains ==
    /\ AfterEvent.pendingAcks = {}
    /\ AfterEvent.reassembly = EmptyMap
    /\ pendingAcks["A"] # {} =>
          AfterEvent.ackCh.closed /\ AfterEvent.ackCh.closes = 1 /\ ackCh["A"].closes = 0
    /\ pendingAcks["A"] = {} => AfterEvent.ackCh = ackCh["A"]
    /\ AfterSecondEvent = AfterEvent
    /\ ackCh["A"].closes <= 1

\* The step of handleDisconnect that calls OnDisconnected leaves what
\* AfterEvent says.
EventStep ==
    (\E h \in Slots : hd["A"][h].pc = "onDisc" /\ hd'["A"][h].pc = "status")
       => /\ pendingAcks'["A"] = {}
          /\ reassembly'["A"] = EmptyMap
          /\ ackCh'["A"] = AfterEvent.ackCh

AckedAndAccepted(pkt) ==
    LET res == acceptData(reassembly["B"], now, pkt[2], pkt[3], pkt[4],
                          SubSeq(pkt, headerSize + 1, Len(pkt)))
    IN  /\ link'["A"] = IF Wrote("B")
                        THEN Append(link["A"], <<2, pkt[2], pkt[3], pkt[4]>>)
                        ELSE link["A"]
        /\ link'["B"] = link["B"]
        /\ reassembly'["B"] = res.reassembly
        /\ recvCh'["B"] = IF res.out = <<>> THEN recvCh["B"]
                          ELSE TrySend(recvCh["B"], res.out[1])

PacketStep == fedCount' = fedCount + 1

\* No ACK was written: the packet was shorter than the header.
ShortStep == PacketStep /\ link'["A"] = <<>>

\* The ACK that was written echoes a total of 0 or an idx that is not below
\* the total.
InvalidStep ==
    /\ PacketStep
    /\ link'["A"] # <<>>
    /\ link'["A"][1][3] = 0 \/ link'["A"][1][4] >= link'["A"][1][3]

\* C21: a DATA packet with total = 0 or idx >= total leaves the reassembly
\* map as it was, old buffers included, and puts nothing on recvCh; a packet
\* of fewer than 4 bytes changes nothing at all.
C21_InvalidDropped ==
    [][/\ InvalidStep => UNCHANGED <<reassembly, recvCh>>
       /\ ShortStep => UNCHANGED <<transportVars, peerVars, statusCh>>]_vars

\* A packet with idx = total came while a buffer older than two minutes
\* was in the map: the buffer is still there and nothing was published.
C21_Witness ==
    /\ fedCount = 2
    /\ link["A"] = <<<<2, 1, 2, 2>>>>
    /\ DOMAIN reassembly["B"] = {2}
    /\ (now - reassembly["B"][2].createdAt) * ackTimeoutMs > reapAfterMs
    /\ recvCh["B"] = <<>>

(***************************************************************************)
(* Properties of the reassembly buffers                                    *)
(***************************************************************************)
\* The packet that the step handed to OnReceivePacket, as its ACK tells it.
LastAck == link'["A"][Len(link'["A"])]

\* The payload of a fuzz packet tells the total and the idx it came with.
CameWith(frag, total, idx) == \E v \in {0, 1} : frag = <<Code(total, idx, v)>>

\* Every buffer has total slots, and each fragment stored in it came in a
\* packet with that total and the idx of its slot.
SlotsAgree ==
    \A s \in DOMAIN reassembly["B"] :
        LET m == reassembly["B"][s]
        IN  /\ DOMAIN m.fragments = 0..(m.total - 1)
            /\ \A i \in DOMAIN m.fragments :
                   m.fragments[i] # Nil => CameWith(m.fragments[i], m.total, i)

\* A valid packet for a seq whose buffer has another total: the buffer is
\* replaced by one made now that holds the fragment of the packet only (a
\* packet with total 1 completes that buffer at once: it is published and
\* removed).
ReplacedStep ==
    (/\ PacketStep
     /\ LastAck[3] # 0 /\ LastAck[4] < LastAck[3]
     /\ LastAck[2] \in DOMAIN reassembly["B"]
     /\ reassembly["B"][LastAck[2]].total # LastAck[3])
    => IF LastAck[3] = 1
       THEN /\ LastAck[2] \notin DOMAIN reassembly'["B"]
            /\ Len(recvCh'["B"]) = Len(recvCh["B"]) + 1
            /\ CameWith(recvCh'["B"][Len(recvCh'["B"])], 1, 0)
       ELSE /\ LastAck[2] \in DOMAIN reassembly'["B"]
            /\ LET m == reassembly'["B"][LastAck[2]]
               IN  /\ m.total = LastAck[3]
                   /\ m.createdAt = now
                   /\ \A i \in 0..(m.total - 1) : m.fragments[i] # Nil <=> i = LastAck[4]
            /\ recvCh' = recvCh

\* C22: every reassembly buffer has exactly total slots and holds only
\* fragments that arrived with that total; a DATA packet for a seq that has
\* a buffer with another total replaces it by a fresh buffer that holds the
\* new fragment only.
C22_BufferOfOneTotal == []SlotsAgree /\ [][ReplacedStep]_vars

\* Fragment 0 of 2 and then fragment 1 of 3 came with seq 1: the buffer has
\* three slots and holds fragment 1 only.
C22_Witness ==
    /\ link["A"] = <<<<2, 1, 2, 0>>, <<2, 1, 3, 1>>>>
    /\ DOMAIN reassembly["B"] = {1}
    /\ reassembly["B"][1].total = 3
    /\ reassembly["B"][1].fragments[0] = Nil
    /\ reassembly["B"][1].fragments[1] # Nil
    /\ reassembly["B"][1].fragments[2] = Nil

(***************************************************************************)
(* Properties of the life of a reassembly buffer                           *)
(***************************************************************************)
\* The buffer of seq s is gone after the step, or a fragment it held is.
Destroyed(s) ==
    /\ s \in DOMAIN reassembly["B"]
    /\ \/ s \notin DOMAIN reassembly'["B"]
       \/ reassembly'["B"][s].total # reassembly["B"][s].total
       \/ \E i \in DOMAIN reassembly["B"][s].fragments :
             /\ reassembly["B"][s].fragments[i] # Nil
             /\ reassembly'["B"][s].fragments[i] # reassembly["B"][s].fragments[i]

\* The step stored the last missing fragment of s and published the message.
Completed(s) ==
    /\ PacketStep
    /\ LastAck[2] = s
    /\ LastAck[3] = reassembly["B"][s].total
    /\ s \notin DOMAIN reassembly'["B"]
    /\ Len(recvCh'["B"]) = Len(recvCh["B"]) + 1

\* The step received a valid packet for s with another total.
Replaced(s) ==
    /\ PacketStep
    /\ LastAck[2] = s
    /\ LastAck[3] # 0 /\ LastAck[4] < LastAck[3]
    /\ LastAck[3] # reassembly["B"][s].total

\* The step is OnConnected or OnDisconnected.
SessionEventStep == fedCount' = fedCount /\ now' = now

\* No fragment has been stored in the buffer of s for more than 2 minutes.
IdleTooLong(s) == (now - storedAt[s]) * ackTimeoutMs > reapAfterMs

\* C23: a reassembly buffer is destroyed only when its message completes,
\* when a packet with another total replaces it, on a session event, or
\* when no fragment has been stored in it for more than 2 minutes.
C23_DestroyedOnlyWhenIdle ==
    [][\A s \in FuzzSeqs :
          Destroyed(s) => Completed(s) \/ Replaced(s) \/ SessionEventStep \/ IdleTooLong(s)]_vars

(***************************************************************************)
(* Properties of seq                                                       *)
(***************************************************************************)
\* C24: the seq of every DATA packet that SendMessage writes, and the seq
\* it has assigned to the message it is sending, is in 1..255, whatever
\* the value of the counter.
C24_SeqNeverZero ==
    /\ \A i \in 1..Len(link["B"]) :
          link["B"][i][1] = packetData => link["B"][i][2] \in 1..255
    /\ snd["A"].pc # "idle" => snd["A"].seq \in 1..255

\* The counter has gone from 2^32 - 1 to 0 and the packet of that message
\* is in flight with seq 1.
C24_Witness ==
    /\ nextSeq["A"] = [hi |-> 0, lo |-> 0]
    /\ link["B"] # <<>>
    /\ link["B"][1][1] = packetData
    /\ link["B"][1][2] = 1

(***************************************************************************)
(* Properties of Object.Call                                               *)
(***************************************************************************)
\* The call of caller k has been written and readLoop has read its reply.
ReplyRead(k) ==
    /\ caller[k].pc \in {"written", "wait"}
    /\ caller[k].serial \notin dconn.wire

\* C25: while the bytes of a call are on the socket its serial is in the
\* pending map, and once readLoop has read the reply of a call the reply is
\* on the channel of its caller.
C25_RegisteredBeforeWrite ==
    \A k \in Callers :
        /\ caller[k].serial \in dconn.wire => caller[k].serial \in dconn.pending
        /\ ReplyRead(k) => caller[k].pc = "wait" /\ caller[k].ch # <<"empty">>

(***************************************************************************)
(* Properties of ConnectSystemBus                                          *)
(***************************************************************************)
\* The bus has answered Hello with a METHOD_RETURN.
HelloAnswered == boot.wire # <<>> /\ boot.wire[1][1] = "return"

\* ConnectSystemBus has returned a Conn whose uniqueName is that of the
\* reply.
HelloReturned ==
    /\ boot.pc = "returned"
    /\ Len(boot.wire[1][2]) >= 4 => boot.uniqueName = boot.wire[1][2]

\* C26: once the bus has answered the Hello call with a METHOD_RETURN,
\* ConnectSystemBus eventually returns the connection with the unique name
\* of that reply.
C26_HelloReturns == HelloAnswered ~> HelloReturned

(***************************************************************************)
(* Properties of auth                                                      *)
(***************************************************************************)
HasWritten(data) == \E i \in DOMAIN boot.sent : boot.sent[i] = data

\* C27: auth does not wait for or read a line of the server before it has
\* written the AUTH EXTERNAL line with the hex of the uid; BEGIN is written
\* only after AUTH and after a response that begins with OK; after any
\* other response no BEGIN is written and the handshake ends with an error.
C27_AuthWithoutWaiting ==
    /\ (boot.pc = "read 1" \/ boot.read # <<>>) => HasWritten(AuthLine(boot.uid))
    /\ HasWritten(BeginLine) =>
          /\ HasWritten(AuthLine(boot.uid))
          /\ IsOKPrefix(boot.read[Len(boot.read)])
    /\ (boot.read # <<>> /\ ~IsOKPrefix(boot.read[Len(boot.read)])) =>
          /\ ~HasWritten(BeginLine)
          /\ boot.pc \in {"read 2", "failed"}

(***************************************************************************)
(* Properties of readLoop                                                  *)
(***************************************************************************)
ReaderUp == dconn.reader = "running" /\ dconn.socket = "open"

\* While readLoop runs on an open socket it can take the next signal and
\* the reply of every call that is on the wire, whatever the state of sigCh
\* and of the pending map.
NeverBlocked ==
    ReaderUp =>
       /\ dconn.signals < MaxSignals => ENABLED readSignal
       /\ \A s \in dconn.wire : ENABLED readReply(s, "return")

\* readLoop has read a signal: it is on sigCh, or sigCh was full and is as
\* it was; no caller is touched and the loop goes on.
SignalHandOff ==
    dconn'.signals = dconn.signals + 1 =>
       /\ dconn'.sigCh = IF dconn.sigCh = sigCap THEN sigCap ELSE dconn.sigCh + 1
       /\ caller' = caller
       /\ dconn'.reader = "running"

\* readLoop has read the reply of call s: without a registered receiver
\* nothing changes for any caller, and the loop goes on.
ReplyHandOff ==
    \A s \in dconn.wire :
        (s \notin dconn'.wire /\ s \notin dconn.pending) =>
           /\ caller' = caller
           /\ dconn'.reader = "running"

\* C28: readLoop never waits to hand a message off: a signal that finds
\* sigCh full and a reply that finds no receiver are dropped, and the loop
\* reads the next message.
C28_ReaderNeverBlocks == []NeverBlocked /\ [][SignalHandOff /\ ReplyHandOff]_vars

\* A signal has found sigCh full and a reply has found no receiver: both
\* were dropped and readLoop is running.
C28_Witness ==
    /\ ReaderUp
    /\ dconn.dropped = 2
    /\ dconn.sigCh = sigCap
    /\ dconn.signals = sigCap + 1
    /\ \E k \in Callers :
          /\ caller[k].pc = "written"
          /\ caller[k].serial \notin dconn.wire
          /\ \A j \in Callers \ {k} : caller[j].pc = "idle"

(***************************************************************************)
(* Properties of bluez.Connect                                             *)
(***************************************************************************)
HasCalled(method) == \E i \in DOMAIN dial.calls : dial.calls[i] = method

DialFailed == dial.pc = "done" /\ dial.err # <<"nil">>

ClientReturned == dial.pc = "done" /\ dial.client # NoClient

\* C29: when Connect returns an error it returns no client and has called
\* Device1.Disconnect; when it returns a client it returns no error, the
\* services were resolved, the service and both characteristics were found
\* in the managed objects, and StartNotify was called and succeeded.
C29_FailureDisconnects ==
    /\ dial.pc = "done" => (DialFailed \/ ClientReturned)
    /\ DialFailed => (dial.client = NoClient /\ HasCalled("Device1.Disconnect"))
    /\ ClientReturned =>
          /\ dial.err = <<"nil">>
          /\ dial.resolved
          /\ Services(dial.out) # {}
          /\ dial.client.writeCharPath \in PathsOf(Chars(dial.out, GattService.path, "rx"))
          /\ dial.client.notifyCharPath \in PathsOf(Chars(dial.out, GattService.path, "tx"))
          /\ HasCalled("StartNotify")
          /\ ~dial.closed

(***************************************************************************)
(* Properties of decodeVariantValue                                        *)
(***************************************************************************)
SameValue(a, b) == a.t = b.t /\ a.v = b.v

\* C30: for a well-formed encoding of a value under one of the signatures
\* s, o, b, y, n, q, u, i, ay and as, decodeVariantValue returns that value
\* and leaves the reader just after the encoding.
C30_DecodesEverySignature ==
    dec.pc = "decoded" =>
       /\ SameValue(dec.got, dec.value)
       /\ dec.pos = Len(dec.buf) - Len(Trailer)

(***************************************************************************)
(* Properties of the races of the receive path and of the session          *)
(***************************************************************************)
\* C31: in every interleaving of an incoming ACK with a session event,
\* signalAck never sends on a channel that the session event has closed.
C31_NoSendOnClosed ==
    \A p \in Peers : ~(acking[p].pc = "panic")

\* C32: a disconnect trigger that belongs to a session never tears down a
\* session installed later: a call of handleDisconnect that found connected
\* true ends the session whose Link produced its event.
C32_EndsOwnSession ==
    \A p \in Peers : \A h \in Slots :
       (hd[p][h].pc \in TeardownPcs /\ hd[p][h].from # 0) => hd[p][h].sess = hd[p][h].from

\* C33: a PendingAck entry registered by a SendMessage that started after
\* connected became true is not drained by the install-time OnConnected of
\* the same session, and over a lossless Link no message of the session
\* fails.
DrainStep == disc["A"] = "drain" /\ disc'["A"] # "drain"

C33_InstallDrainsNothing ==
    /\ [](\A i \in 1..Len(returned["A"]) : returned["A"][i].err = NoError)
    /\ [][DrainStep => pendingAcks["A"] = {}]_vars

\* C34: any two consecutive non-empty messages accepted by SendMessage are
\* assigned different seq values, at every value of the message counter.
SeqAssigned == snd["A"].pc = "idle" /\ snd'["A"].pc = "register"

C34_ConsecutiveSeqsDiffer ==
    [][(SeqAssigned /\ nextSeq["A"] # Counter(0)) =>
          snd'["A"].seq # SeqOf(nextSeq["A"])]_vars

\* C35: within one session every string published on recv is the full text
\* of one message passed to the peer's SendMessage; fragments of two
\* messages are never joined.
C35_PublishedIsOneMessage ==
    \A i \in 1..Len(recvCh["B"]) :
       \E k \in 0..(taken["A"] - 1) : recvCh["B"][i] = TwoFragmentText(k)

\* C36: a Peripheral session is installed only for a connection event of
\* the current advertise window: the discovery loop never takes from
\* pIncoming an event that was queued before the window began, and never
\* installs a session for a connection that no longer exists.
PeripheralInstall ==
    /\ disc["A"] = "advertise"
    /\ session'["A"] = session["A"] + 1

WindowBegins == disc["A"] # "advertise" /\ disc'["A"] = "advertise"

C36_InstallsLiveConnection ==
    [][/\ WindowBegins => pIncoming["A"] = 0
       /\ PeripheralInstall => inbound["A"]]_vars

(***************************************************************************)
(* Properties of Object.Call against the end of readLoop                   *)
(***************************************************************************)
\* C37: no caller blocks forever after readLoop has ended: once the reader
\* is done, a caller that is in waitReply has a value on its channel (only
\* readLoop sends on the channels of the pending map), the caller whose
\* bytes were written before the end and who registered after it included.
C37_NoCallerStranded ==
    \A k \in Callers :
       (dconn.reader = "done" /\ caller[k].pc = "wait") => caller[k].ch # <<"empty">>

(***************************************************************************)
(* Properties of handleDisconnect under several triggers                   *)
(***************************************************************************)
\* The call in slot h finds connected true and goes on to the teardown.
EntersTeardown(h) == hd["A"][h].pc = "swap" /\ hd'["A"][h].pc = "lock"

\* The session that is installed has a teardown running or finished.
TeardownKnown ==
    \/ session["A"] \in tornDown["A"]
    \/ \E g \in Slots :
          hd["A"][g].pc \in TeardownPcs \cup {"status"} /\ hd["A"][g].sess = session["A"]

\* The call in slot h finds connected false.
ReturnsAtOnce(h) ==
    /\ hd["A"][h].pc = "swap"
    /\ ~connected["A"]
    /\ hd'["A"][h] # hd["A"][h]

\* C38: for each installed session at most one call of handleDisconnect
\* enters the teardown body, whatever the number of triggers, and a call
\* that finds connected false changes nothing.
C38_TeardownOncePerSession ==
    [][\A h \in Slots :
          /\ EntersTeardown(h) => ~TeardownKnown /\ hd'["A"][h].sess = session["A"]
          /\ ReturnsAtOnce(h) =>
                /\ hd' = [hd EXCEPT !["A"][h] = FreeHD]
                /\ UNCHANGED <<sessionVars, discoveryVars, linkVars, tornDown,
                               componentVars, harnessVars, transportVars, statusCh>>]_vars

\* Two triggers of session 1 at once: one call is in the teardown, the
\* other is about to find connected false.
C38_Witness ==
    /\ session["A"] = 1
    /\ \E h, g \in Slots :
          /\ hd["A"][h].pc = "close" /\ hd["A"][h].sess = 1
          /\ hd["A"][g].pc = "swap"

(***************************************************************************)
(* Lock order                                                              *)
(***************************************************************************)
\* The task that holds the mutex t is blocked on, or "none".
WaitsFor(t) ==
    IF /\ locks.prog[t] # <<>>
       /\ Head(locks.prog[t])[1] = "Lock"
    THEN locks.held[Head(locks.prog[t])[2]]
    ELSE "none"

RECURSIVE Blocker(_, _)
Blocker(t, n) ==
    IF n = 0 \/ t = "none" THEN t ELSE Blocker(WaitsFor(t), n - 1)

Deadlocked(t) == \E n \in 1..Cardinality(Tasks) : Blocker(t, n) = t

\* C39: in every interleaving of the writer task, the receive path, session
\* installation and handleDisconnect, no task waits for a mutex in a cycle of
\* tasks that wait for one another; a task that is blocked is blocked by a
\* task that can run, so no deadlock is reached.
C39_NoLockCycle == \A t \in Tasks : ~Deadlocked(t)

\* Session installation holds mu and ackMu while writeLoop, inside
\* SendMessage, waits for mu and a teardown waits for mu as well.
C39_Witness ==
    /\ locks.held["mu"] = "discoveryLoop"
    /\ locks.held["ackMu"] = "discoveryLoop"
    /\ WaitsFor("writeLoop") = "discoveryLoop"
    /\ WaitsFor("watcher") = "discoveryLoop"
    /\ WaitsFor("notify") = "discoveryLoop"

(***************************************************************************)
(* Role flag and client handle                                             *)
(***************************************************************************)
\* C40: whenever the Peer mutex is free, isCentral is true only if
\* centralClient is non-nil, so a writeRaw that finds isCentral true has a
\* client to write to, in every interleaving of session installation,
\* handleDisconnect and writes.
C40_CentralHasClient == \A p \in Peers : isCentral[p] => centralClient[p] # 0

\* A second central session is installed while the teardown of the first is
\* still before its critical section, and a DATA packet waits to be answered.
C40_Witness ==
    /\ isCentral["A"]
    /\ session["A"] >= 2
    /\ link["A"] # <<>>
    /\ \E h \in Slots : hd["A"][h].pc = "lock"

====
